---- MODULE Spec2Model ----
(***************************************************************************)
(* Model of the psycho-trainer core:                                       *)
(*   - ClaudeService.buildMessagesWithCache and its helpers                *)
(*     (src/src/services/UserService.js), specification SpecCache;         *)
(*   - SessionService, its registry and its inactivity timers              *)
(*     (src/unnamed/part_001), specifications Spec, SpecStore, SpecLive,   *)
(*     SpecUsers and SpecTurns;                                            *)
(*   - ClaudeService.checkRateLimit and cleanupRateLimiter, specifications *)
(*     SpecRate and SpecSweep;                                             *)
(*   - calculateTokens and summarizeConversationHistory, specifications    *)
(*     SpecTokens and SpecSummary; malformed transcripts, SpecRaw.         *)
(* Time is counted in ticks of 5 minutes.                                  *)
(***************************************************************************)
EXTENDS Integers, Sequences, FiniteSets, TLC

VARIABLES
  \* ---- ClaudeService.buildMessagesWithCache: arguments and return value
  messages,        \* the transcript handed to buildMessagesWithCache
  systemPrompt,    \* the system prompt argument
  tokenizer,       \* what getTokenCount does for the prompt
  options,         \* options.isNewWeek
  result,          \* the value returned by the last call
  \* ---- SessionService
  now,             \* Date.now()
  activeSessions,  \* this.activeSessions
  sessionObjects,  \* the messages array of every session object created
  inactivityTimers,\* this.inactivityTimers
  inactivityWarnings, \* this.inactivityWarnings
  timers,          \* the runtime's pending setTimeout timers
  nextSweep,       \* next expiry of setInterval(cleanupInactiveSessions)
  dbSessions,      \* table sessions of the store
  dbHistory,       \* table conversation_history of the store
  inflight,        \* upstream calls of sendMessage awaiting their reply
  hist,            \* per session: the last lifecycle operation and callbacks since
  outcome,         \* whether the last operation returned or threw
  \* ---- SessionService registry seen per user
  userSessions,    \* this.activeSessions: for every uuid, the userId of its entry
  userRows,        \* table sessions: status and user_id of every row
  overdueUpTo,     \* the rows started more than maxInactiveTime ago
  \* ---- one registered session and the turns sent to it
  transcript,      \* session.messages
  turnCalls,       \* every sendMessage call: where it is suspended, how it ended
  messageRows,     \* table messages
  conversationRows, \* table conversation_history
  \* ---- ClaudeService.checkRateLimit
  rateLimiter,     \* this.rateLimiter: the timestamps recorded per user
  clock,           \* Date.now(), in milliseconds
  lastCheck,       \* the last call of checkRateLimit and what it returned
  \* ---- buildMessagesWithCache called with any value as transcript
  inputKind,       \* what the messages argument is: an array, null, an object
  \* ---- ClaudeService.calculateTokens called on any value
  textArg,         \* the argument
  getTokenCount,   \* the imported tokenizer: absent, throwing, or counting
  tokens,          \* the value returned by the last call
  \* ---- ClaudeService.summarizeConversationHistory called on a run of turns
  olderTurns,      \* the argument: missing, or an array of turns
  summary,         \* the value returned by the last call
  \* ---- ClaudeService.cleanupRateLimiter
  unswept          \* the map as it would be had no sweep ever run, and the
                   \* result of the last checkRateLimit on that map

cacheVars == <<messages, systemPrompt, tokenizer, options, result>>
sessionVars == <<now, activeSessions, sessionObjects, inactivityTimers,
                 inactivityWarnings, timers, nextSweep, dbSessions, dbHistory,
                 inflight, hist, outcome>>
userVars == <<userSessions, userRows, overdueUpTo>>
turnVars == <<transcript, turnCalls, messageRows, conversationRows>>
rateVars == <<rateLimiter, clock, lastCheck>>
rawVars == <<inputKind>>
tokenVars == <<textArg, getTokenCount, tokens>>
summaryVars == <<olderTurns, summary>>
sweepVars == <<unswept>>
moreVars == <<tokenVars, summaryVars, sweepVars>>
extraVars == <<userSessions, userRows, overdueUpTo,
               transcript, turnCalls, messageRows, conversationRows,
               rateLimiter, clock, lastCheck, inputKind, moreVars>>
vars == <<messages, systemPrompt, tokenizer, options, result,
          now, activeSessions, sessionObjects, inactivityTimers,
          inactivityWarnings, timers, nextSweep, dbSessions, dbHistory,
          inflight, hist, outcome,
          userSessions, userRows, overdueUpTo,
          transcript, turnCalls, messageRows, conversationRows,
          rateLimiter, clock, lastCheck, inputKind, moreVars>>

(***************************************************************************)
(* Bounds                                                                  *)
(***************************************************************************)
MaxMessages == 32      \* longest transcript handed to buildMessagesWithCache
MaxTime == 5           \* the clock stops here
FirstSweep == 2        \* time left, at time 0, until the sweep runs
MaxTimers == 3         \* pending timers of one session
MaxTurns == 1          \* therapist turns sent to one session
MaxLives == 2          \* times one session id is put in the registry
MaxRows == 3           \* rows of table sessions in the per-user registry
MaxCalls == 2          \* sendMessage calls made for the one session
MaxChecks == 7         \* calls of checkRateLimit
MaxAdvances == 6       \* times the millisecond clock moves on
MaxRawMessages == 3    \* longest transcript of turns of any shape
MaxTextLen == 9        \* longest string handed to calculateTokens
MaxCount == 3          \* largest count the tokenizer returns
MaxRun == 9            \* longest run handed to summarizeConversationHistory
MaxSpoken == 2         \* turns of the run that hold words
RegisterBy == 1        \* in the long run, sessions are registered up to this time
MaxSweepAdvances == 3  \* clock advances while the sweep runs

(***************************************************************************)
(* ClaudeService: token estimate and request assembly                      *)
(***************************************************************************)
recentCount == 6
SimpleLimit == 10
SummarizeFrom == 30
CacheMinTokens == 800
SegmentSize == 8

\* A text is null or a string of a given length.
StringOf(n) == [isString |-> TRUE, len |-> n]
NullText == [isString |-> FALSE, len |-> 0]

\* JavaScript truthiness of a text: null and "" are falsy.
Truthy(text) == text.isString /\ text.len > 0

\* !text: "", null, undefined and 0 are falsy.
Falsy(t) ==
  IF t.isString THEN t.len = 0
  ELSE "kind" \notin DOMAIN t \/ t.kind \in {"null", "undefined", "zero"}

\* calculateTokens with the guard written "if (!text)": a truthy value that
\* is not a string reaches the tokenizer and the length estimate.
calculateTokensNoTypeCheck(text, tok) ==
  IF Falsy(text) THEN 0
  ELSE IF tok.mode = "precise" THEN tok.count
  ELSE (text.len + 3) \div 4

\* calculateTokens: 0 for a falsy or non-string text; the tokenizer's count
\* when getTokenCount is callable and returns; else ceil(length / 4).
calculateTokens(text, tok) ==
  IF ~Truthy(text) THEN 0
  ELSE IF tok.mode = "precise" THEN tok.count
  ELSE (text.len + 3) \div 4

\* slice(-n) miswritten as slice(0, n): the first n elements.
SliceFirst(s, n) ==
  IF Len(s) <= n THEN s ELSE SubSeq(s, 1, n)

\* Array.prototype.slice(-n): the last n elements (all when shorter).
SliceLast(s, n) ==
  IF Len(s) <= n THEN s ELSE SubSeq(s, Len(s) - n + 1, Len(s))

\* slice(0, -n) miswritten as slice(0, -n - 1): one more element is left out.
SliceButLastOneMore(s, n) ==
  IF Len(s) <= n + 1 THEN <<>> ELSE SubSeq(s, 1, Len(s) - n - 1)

\* Array.prototype.slice(0, -n): all but the last n elements.
SliceButLast(s, n) ==
  IF Len(s) <= n THEN <<>> ELSE SubSeq(s, 1, Len(s) - n)

\* msg => ({ ...msg }): the turn's own cache_control is carried over.
CopyWithCacheControl(msg) ==
  [role |-> msg.role, content |-> msg.content, cache_control |-> msg.cache_control]

\* msg => ({ role: msg.role, content: msg.content }): no other key is copied.
CopyRoleContent(msg) ==
  [role |-> msg.role, content |-> msg.content, cache_control |-> FALSE]

\* messages.map(...)
MapCopy(s) == [i \in 1..Len(s) |-> CopyRoleContent(s[i])]

\* determineStrategy: the strategy name logged by buildMessagesWithCache.
determineStrategy(messageCount, systemTokens) ==
  IF messageCount <= SimpleLimit
  THEN IF systemTokens >= CacheMinTokens THEN "system_cache" ELSE "no_cache"
  ELSE "sliding_window"

\* buildSimpleSystemCache keeping only the last 6 turns, as the window does.
buildSimpleSystemCacheWindowed(msgs, prompt, systemTokens) ==
  [returned |-> TRUE,
   messages |-> MapCopy(SliceLast(msgs, recentCount)),
   system |->
     IF Truthy(prompt) /\ systemTokens >= CacheMinTokens
     THEN << [base |-> prompt, context |-> "none", history |-> <<>>,
              cache_control |-> TRUE] >>
     ELSE IF Truthy(prompt)
     THEN << [base |-> prompt, context |-> "none", history |-> <<>>,
              cache_control |-> FALSE] >>
     ELSE << >>]

\* buildSimpleSystemCache: every turn copied; the prompt as one segment,
\* annotated when it is truthy and has 800 tokens or more, not annotated when
\* truthy and smaller, no system key for a falsy prompt.
buildSimpleSystemCache(msgs, prompt, systemTokens) ==
  [returned |-> TRUE,
   messages |-> MapCopy(msgs),
   system |->
     IF Truthy(prompt) /\ systemTokens >= CacheMinTokens
     THEN << [base |-> prompt, context |-> "none", history |-> <<>>,
              cache_control |-> TRUE] >>
     ELSE IF Truthy(prompt)
     THEN << [base |-> prompt, context |-> "none", history |-> <<>>,
              cache_control |-> FALSE] >>
     ELSE << >>]

\* The loop of summarizeConversationHistory that cuts the run into segments:
\* a segment is closed when it holds 8 turns or at the last turn.
RECURSIVE Segments(_)
Segments(s) ==
  IF Len(s) = 0 THEN <<>>
  ELSE IF Len(s) <= SegmentSize THEN << s >>
  ELSE << SubSeq(s, 1, SegmentSize) >>
       \o Segments(SubSeq(s, SegmentSize + 1, Len(s)))

\* The text of a turn is a sequence of words; join(' ') of the contents of
\* several turns is the concatenation of their words.
RECURSIVE JoinWords(_)
JoinWords(msgs) ==
  IF Len(msgs) = 0 THEN <<>>
  ELSE Head(msgs).words \o JoinWords(Tail(msgs))

\* String.prototype.toLowerCase, word by word.
LowerWord(w) ==
  CASE w = "Horosho" -> "horosho"
    [] OTHER -> w

toLowerCase(content) == [i \in 1..Len(content) |-> LowerWord(content[i])]

\* The words that hold another word as a substring.
Substrings == { <<"neploho", "ploho">>, <<"ustalost", "ustal">> }

\* content.includes(keyword): a keyword of one word occurs inside a word, a
\* keyword of several words occurs as consecutive words.
includes(content, keyword) ==
  \E i \in 1..(Len(content) - Len(keyword) + 1) :
    IF Len(keyword) = 1
    THEN content[i] = keyword[1] \/ <<content[i], keyword[1]>> \in Substrings
    ELSE \A j \in 1..Len(keyword) : content[i + j - 1] = keyword[j]

\* const themes = { ... } of extractKeyThemes, in insertion order.
ThemeTable ==
  << [theme |-> "work and stress",
      keywords |-> {<<"rabota">>, <<"stress">>, <<"kollegi">>, <<"nachalnik">>,
                    <<"proekt">>, <<"dedlayn">>}],
     [theme |-> "relationships",
      keywords |-> {<<"semya">>, <<"partner">>, <<"druzya">>, <<"otnosheniya">>,
                    <<"lyubov">>, <<"konflikt">>}],
     [theme |-> "emotions",
      keywords |-> {<<"trevoga">>, <<"depressiya">>, <<"zlost">>, <<"strah">>,
                    <<"radost">>, <<"grust">>}],
     [theme |-> "health",
      keywords |-> {<<"son">>, <<"ustalost">>, <<"bolezn">>, <<"lechenie">>,
                    <<"vrach">>}],
     [theme |-> "personal growth",
      keywords |-> {<<"tseli">>, <<"mechty">>, <<"plany">>, <<"razvitie">>,
                    <<"uspeh">>, <<"neudacha">>}] >>

\* const emotions = { ... } of extractEmotions, in insertion order.
EmotionTable ==
  << [emotion |-> "anxious",
      keywords |-> {<<"bespokoyus">>, <<"trevozhno">>, <<"strashno">>,
                    <<"volnuyus">>, <<"nervnichayu">>}],
     [emotion |-> "sad",
      keywords |-> {<<"grustno">>, <<"pechalno">>, <<"rasstroen">>,
                    <<"depressiya">>, <<"ploho">>}],
     [emotion |-> "angry",
      keywords |-> {<<"zlyus">>, <<"besit">>, <<"razdrazhaet">>, <<"nenavizhu">>,
                    <<"gnev">>}],
     [emotion |-> "positive",
      keywords |-> {<<"horosho">>, <<"raduyus">>, <<"schastliv">>, <<"otlichno">>,
                    <<"zdorovo">>}],
     [emotion |-> "tired",
      keywords |-> {<<"ustal">>, <<"vymatyvaet">>, <<"izmotan">>,
                    <<"net", "sil">>}] >>

\* extractKeyThemes: every theme one of whose keywords occurs in the
\* lower-cased contents of the segment, in table order; none found stands
\* for the generic phrase.
extractKeyThemes(segment) ==
  LET content == toLowerCase(JoinWords(segment))
      found(i) == \E k \in ThemeTable[i].keywords : includes(content, k)
      Themes[i \in 0..Len(ThemeTable)] ==
        IF i = 0 THEN <<>>
        ELSE IF found(i) THEN Append(Themes[i - 1], ThemeTable[i].theme)
        ELSE Themes[i - 1]
  IN Themes[Len(ThemeTable)]

\* extractEmotions without the toLowerCase of the joined contents.
extractEmotionsCaseSensitive(patientMessages) ==
  IF Len(patientMessages) = 0 THEN "neutral"
  ELSE LET content == JoinWords(patientMessages)
           matching == {i \in 1..Len(EmotionTable) :
                          \E k \in EmotionTable[i].keywords : includes(content, k)}
       IN IF matching = {} THEN "mixed"
          ELSE EmotionTable[CHOOSE i \in matching :
                              \A m \in matching : i <= m].emotion

\* extractEmotions: "neutral" without patient turns; else the first entry of
\* the table one of whose keywords occurs in the lower-cased joined contents;
\* "mixed" when no entry matches.
extractEmotions(patientMessages) ==
  IF Len(patientMessages) = 0 THEN "neutral"
  ELSE LET content == toLowerCase(JoinWords(patientMessages))
           matching == {i \in 1..Len(EmotionTable) :
                          \E k \in EmotionTable[i].keywords : includes(content, k)}
       IN IF matching = {} THEN "mixed"
          ELSE EmotionTable[CHOOSE i \in matching :
                              \A m \in matching : i <= m].emotion

\* segment.filter(m => m.role === 'assistant')
PatientMessages(segment) ==
  LET isPatient(m) == m.role = "assistant"
  IN SelectSeq(segment, isPatient)

\* summarizeConversationHistory with the segments numbered from 0.
summarizeConversationHistoryFromZero(old) ==
  IF Len(old) = 0 THEN << [kind |-> "placeholder"] >>
  ELSE LET segs == Segments(old)
       IN [i \in 1..Len(segs) |->
             [kind |-> "segment", index |-> i - 1,
              turns |-> [j \in 1..Len(segs[i]) |-> segs[i][j].content],
              themes |-> extractKeyThemes(segs[i]),
              emotions |-> extractEmotions(PatientMessages(segs[i]))]]

\* summarizeConversationHistory: the placeholder for an empty run, else one
\* sentence per segment, numbered from 1, with the themes of the segment and
\* the emotion of its patient turns.  The sentence also records the turns
\* it was made from.
summarizeConversationHistory(old) ==
  IF Len(old) = 0 THEN << [kind |-> "placeholder"] >>
  ELSE LET segs == Segments(old)
       IN [i \in 1..Len(segs) |->
             [kind |-> "segment", index |-> i,
              turns |-> [j \in 1..Len(segs[i]) |-> segs[i][j].content],
              themes |-> extractKeyThemes(segs[i]),
              emotions |-> extractEmotions(PatientMessages(segs[i]))]]

\* `${msg.role === 'user' ? 'Терапевт' : 'Пациент'}: ${msg.content}`
RenderLine(msg) ==
  [kind |-> "line",
   label |-> IF msg.role = "user" THEN "Therapist" ELSE "Patient",
   content |-> msg.content]

\* buildSlidingWindowCache: the last 6 turns copied; the earlier turns,
\* rendered line by line or summarized from 30 turns on, appended to the
\* prompt in one annotated segment.
buildSlidingWindowCache(msgs, prompt, opts) ==
  LET recentMessages == SliceLast(msgs, recentCount)
      oldMessages == SliceButLast(msgs, recentCount)
      summarize == Len(msgs) >= SummarizeFrom
  IN [returned |-> TRUE,
      messages |-> MapCopy(recentMessages),
      system |-> << [base |-> prompt,
                     context |-> IF opts.isNewWeek THEN "newWeek" ELSE "sameSession",
                     history |-> IF summarize
                                 THEN summarizeConversationHistory(oldMessages)
                                 ELSE [i \in 1..Len(oldMessages) |->
                                         RenderLine(oldMessages[i])],
                     cache_control |-> TRUE] >>]

\* buildMessagesWithCache with the short-conversation test written "< 10".
buildMessagesWithCacheStrict(msgs, prompt, opts, tok) ==
  LET systemTokens == calculateTokens(prompt, tok)
      messageCount == Len(msgs)
  IN IF messageCount < SimpleLimit
     THEN buildSimpleSystemCache(msgs, prompt, systemTokens)
     ELSE buildSlidingWindowCache(msgs, prompt, opts)

\* buildMessagesWithCache: simple up to 10 turns, sliding window beyond.
buildMessagesWithCache(msgs, prompt, opts, tok) ==
  LET systemTokens == calculateTokens(prompt, tok)
      messageCount == Len(msgs)
  IN IF messageCount <= SimpleLimit
     THEN buildSimpleSystemCache(msgs, prompt, systemTokens)
     ELSE buildSlidingWindowCache(msgs, prompt, opts)

(***************************************************************************)
(* Specification SpecCache: buildMessagesWithCache over growing            *)
(* transcripts, prompts around the 800-token threshold, both options.      *)
(***************************************************************************)
Roles == {"user", "assistant"}

\* Prompts and tokenizer outcomes: null, "", strings of 799 and 800
\* estimated tokens, and exact counts on either side of the threshold.
PromptCases ==
  { <<NullText, [mode |-> "fallback", count |-> 0]>>,
    <<StringOf(0), [mode |-> "fallback", count |-> 0]>>,
    <<StringOf(4 * CacheMinTokens - 4), [mode |-> "fallback", count |-> 0]>>,
    <<StringOf(4 * CacheMinTokens - 3), [mode |-> "fallback", count |-> 0]>>,
    <<StringOf(4 * CacheMinTokens), [mode |-> "precise", count |-> CacheMinTokens - 1]>>,
    <<StringOf(40), [mode |-> "precise", count |-> CacheMinTokens]>> }

NoResult == [returned |-> FALSE, messages |-> <<>>, system |-> <<>>]

InitCacheVars ==
  /\ messages = <<>>
  /\ \E pc \in PromptCases : systemPrompt = pc[1] /\ tokenizer = pc[2]
  /\ options \in [isNewWeek : BOOLEAN]
  /\ result = NoResult

IdleCacheVars ==
  /\ messages = <<>>
  /\ systemPrompt = NullText
  /\ tokenizer = [mode |-> "fallback", count |-> 0]
  /\ options = [isNewWeek |-> FALSE]
  /\ result = NoResult

\* One more turn in the transcript.  Its content is its position, so that
\* order and identity of turns are visible in the payload, and it has no
\* words.  Roles alternate
\* from a free first role; at most one turn carries a cache_control key.
PushTurn ==
  /\ Len(messages) < MaxMessages
  /\ \E role \in Roles, cc \in BOOLEAN :
       /\ Len(messages) > 0 => role # messages[Len(messages)].role
       /\ cc => \A i \in 1..Len(messages) : ~messages[i].cache_control
       /\ messages' = Append(messages,
                              [role |-> role, content |-> Len(messages) + 1,
                               words |-> <<>>, cache_control |-> cc])
  /\ result' = NoResult
  /\ UNCHANGED <<systemPrompt, tokenizer, options>>

\* const { system, messages } = this.buildMessagesWithCache(...)
Build ==
  /\ result = NoResult
  /\ result' = buildMessagesWithCache(messages, systemPrompt, options, tokenizer)
  /\ UNCHANGED <<messages, systemPrompt, tokenizer, options>>


(***************************************************************************)
(* SessionService: registry, inactivity timers, periodic sweep             *)
(***************************************************************************)
\* Session uuids.
Sessions == {"s1"}

INACTIVITY_WARNING_TIME == 1     \* 5 minutes
INACTIVITY_END_TIME == 2         \* 10 minutes
DefaultPauseDuration == 3        \* 15 minutes
maxInactiveTime == 24            \* 2 hours
SweepInterval == 6               \* 30 minutes

PauseDurations == {DefaultPauseDuration}

\* started_at of the rows of table sessions left by an earlier run of the
\* process: one step and two steps short of the 2-hour ceiling at time 0.
OldStarts == {1 - maxInactiveTime, 2 - maxInactiveTime}

Lives == 1..MaxLives

NoSession == [present |-> FALSE, object |-> 0, startTime |-> 0, lastActivity |-> 0]
Undefined == [kind |-> "none", at |-> 0, n |-> 0]
NoEntry == [present |-> FALSE, warningTimer |-> Undefined, endTimer |-> Undefined,
            pauseTimer |-> Undefined]
NoWarning == [warningSent |-> FALSE, warningTime |-> 0]
NoRow == [status |-> "absent", started_at |-> 0]

\* What has been done to a session id: the last lifecycle operation (op, at,
\* tp) and the times of the warning callbacks since (warned); for a
\* termination, the operation before it (prevOp, prevAt, prevWarned); the
\* number of termination callbacks in this life (endCbs); the number of
\* lives (life) and of therapist turns (turns); whether a warning callback
\* has been issued with no turn, continue, pause, end, termination or sweep
\* removal since (warnedSince); whether the session was paused in this life
\* and which of turn, continue followed the last pause (paused, afterPause);
\* the lives ended by endSession (ended) and whether a callback was invoked
\* by a timer armed in one of them (stale).
NoHist == [op |-> "none", at |-> 0, tp |-> 0, warned |-> <<>>,
           prevOp |-> "none", prevAt |-> 0, prevWarned |-> <<>>,
           endCbs |-> 0, life |-> 0, turns |-> 0, warnedSince |-> FALSE,
           paused |-> FALSE, afterPause |-> {}, ended |-> {},
           stale |-> FALSE]

Did(h, name, tp, t) ==
  [h EXCEPT !.op = name, !.at = t, !.tp = tp, !.warned = <<>>,
            !.prevOp = IF name = "timeout" THEN h.op ELSE "none",
            !.prevAt = IF name = "timeout" THEN h.at ELSE 0,
            !.prevWarned = IF name = "timeout" THEN h.warned ELSE <<>>,
            !.warnedSince = IF name \in {"create", "restore"} THEN @ ELSE FALSE,
            !.afterPause = IF name \in {"turn", "continue"} /\ h.paused
                           THEN @ \cup {name}
                           ELSE IF name \in {"pause", "create", "restore"}
                           THEN {} ELSE @,
            !.ended = IF name \in {"end", "timeout"} THEN @ \cup {h.life} ELSE @,
            !.paused = IF name \in {"create", "restore"} THEN FALSE
                       ELSE IF name = "pause" THEN TRUE ELSE @]

\* The timer state a handler works on: the runtime's pending timers and the
\* inactivityTimers map.
TimerState(tm, map) == [timers |-> tm, map |-> map]

\* A timer handle.  Timers of one session with the same callback and expiry
\* are told apart by n.
Handle(t) == [kind |-> t.kind, at |-> t.at, n |-> t.n]

NewHandle(T, s, kind, at) ==
  [kind |-> kind, at |-> at,
   n |-> 1 + Cardinality({x \in T.timers : x.s = s /\ x.kind = kind /\ x.at = at})]

\* setTimeout(callback, delay): one more pending timer with handle h.
SetTimeout(T, s, h, life) ==
  [T EXCEPT !.timers = @ \cup {[s |-> s, kind |-> h.kind, at |-> h.at,
                                n |-> h.n, life |-> life]}]

\* clearTimeout(h): the timer is dropped if still pending; nothing happens
\* for undefined or for a timer that has fired.
ClearTimeout(T, s, h) ==
  [T EXCEPT !.timers = {t \in @ : ~(t.s = s /\ Handle(t) = h)}]

Pending(T, s) == {t \in T.timers : t.s = s}

\* clearInactivityTimer that deletes the entry without clearTimeout.
clearInactivityTimerEntryOnly(s, T) ==
  IF T.map[s].present
  THEN [T EXCEPT !.map[s] = NoEntry]
  ELSE T

\* clearInactivityTimer: clearTimeout(timers.warningTimer) and
\* clearTimeout(timers.endTimer) when the map has an entry, then the entry
\* is deleted.  An entry written by handlePauseSession has neither field,
\* and its pauseTimer is not cancelled.
clearInactivityTimer(s, T) ==
  IF T.map[s].present
  THEN LET W == ClearTimeout(T, s, T.map[s].warningTimer)
           E == ClearTimeout(W, s, T.map[s].endTimer)
       IN [E EXCEPT !.map[s] = NoEntry]
  ELSE T

\* startInactivityMonitoring that arms the warning timer only.
startInactivityMonitoringNoEnd(s, T, t, life) ==
  LET C == clearInactivityTimer(s, T)
      w == NewHandle(C, s, "warning", t + INACTIVITY_WARNING_TIME)
      W == SetTimeout(C, s, w, life)
  IN [W EXCEPT !.map[s] = [present |-> TRUE, warningTimer |-> w,
                           endTimer |-> Undefined, pauseTimer |-> Undefined]]

\* startInactivityMonitoring: clear the entry, arm the warning timer and the
\* end timer, record both handles.
startInactivityMonitoring(s, T, t, life) ==
  LET C == clearInactivityTimer(s, T)
      w == NewHandle(C, s, "warning", t + INACTIVITY_WARNING_TIME)
      e == NewHandle(C, s, "end", t + INACTIVITY_END_TIME)
      W == SetTimeout(C, s, w, life)
      E == SetTimeout(W, s, e, life)
  IN [E EXCEPT !.map[s] = [present |-> TRUE, warningTimer |-> w,
                           endTimer |-> e, pauseTimer |-> Undefined]]

\* Room for k more pending timers of s once its entry is cleared.
CanArm(s, T, k) ==
  Cardinality(Pending(clearInactivityTimer(s, T), s)) + k <= MaxTimers

\* clearInactivityWarning: this.inactivityWarnings.delete(sessionUuid)
clearInactivityWarning(s, warnings) == [warnings EXCEPT ![s] = NoWarning]

\* resetInactivityTimer: clear timers, clear the warning flag, start again.
resetInactivityTimer(s, T, warnings, t, life) ==
  [T |-> startInactivityMonitoring(s, clearInactivityTimer(s, T), t, life),
   warnings |-> clearInactivityWarning(s, warnings)]


(***************************************************************************)
(* The store                                                               *)
(***************************************************************************)
LoadLimit == 50

\* loadConversationFromDB: the last 50 rows in insertion order; for every
\* row, the turns stored in it and then its response as a patient turn.
RECURSIVE loadRows(_)
loadRows(rows) ==
  IF Len(rows) = 0 THEN <<>>
  ELSE rows[1].messages
         \o << [role |-> "assistant", content |-> rows[1].response_content] >>
         \o loadRows(Tail(rows))

loadConversationFromDB(rows) == loadRows(SliceLast(rows, LoadLimit))

\* One exchange stored by the earlier run for a row of OldStarts.
OldHistory ==
  << [messages |-> << [role |-> "user", content |-> 0] >>,
      response_content |-> 0] >>

(***************************************************************************)
(* Session objects                                                         *)
(***************************************************************************)
Registered(s) == activeSessions[s].present

\* The messages array of the session registered under s.
Transcript(s) == sessionObjects[s][activeSessions[s].object]

\* An object that is neither registered nor used by a pending upstream call
\* is unreachable; its array is dropped.
Collect(objs, active, calls) ==
  [s \in Sessions |-> [l \in Lives |->
     IF (active[s].present /\ active[s].object = l)
        \/ (\E c \in calls : c.s = s /\ c.object = l)
     THEN objs[s][l] ELSE <<>>]]

PendingFor(s) == {t \in timers : t.s = s}

TS == TimerState(timers, inactivityTimers)

(***************************************************************************)
(* Operations of SessionService                                            *)
(***************************************************************************)
\* createSession for a patient of the user: a new uuid, a row in sessions,
\* a new session object in the registry, monitoring started.
createSession(s) ==
  /\ dbSessions[s].status = "absent"
  /\ hist[s].life < MaxLives
  /\ CanArm(s, TS, 2)
  /\ LET life == hist[s].life + 1
         T == startInactivityMonitoring(s, TS, now, life)
         active == [activeSessions EXCEPT ![s] =
                      [present |-> TRUE, object |-> life, startTime |-> now,
                       lastActivity |-> now]]
     IN /\ dbSessions' = [dbSessions EXCEPT ![s] =
                            [status |-> "active", started_at |-> now]]
        /\ activeSessions' = active
        /\ sessionObjects' = Collect([sessionObjects EXCEPT ![s][life] = <<>>],
                                     active, inflight)
        /\ timers' = T.timers
        /\ inactivityTimers' = T.map
        /\ hist' = [hist EXCEPT ![s] = [Did(@, "create", 0, now) EXCEPT
                                          !.life = life, !.endCbs = 0]]
        /\ outcome' = "ok"
  /\ UNCHANGED <<now, inactivityWarnings, nextSweep, dbHistory, inflight>>

\* continueSession: the row is read from sessions (whatever its status), the
\* transcript is loaded from conversation_history, a new session object
\* replaces whatever the registry held, monitoring is started.  The warning
\* flag and the row are not touched.
continueSession(s) ==
  /\ dbSessions[s].status # "absent"
  /\ hist[s].life < MaxLives
  /\ CanArm(s, TS, 2)
  /\ LET life == hist[s].life + 1
         T == startInactivityMonitoring(s, TS, now, life)
         active == [activeSessions EXCEPT ![s] =
                      [present |-> TRUE, object |-> life,
                       startTime |-> dbSessions[s].started_at,
                       lastActivity |-> now]]
     IN /\ activeSessions' = active
        /\ sessionObjects' =
             Collect([sessionObjects EXCEPT ![s][life] =
                        loadConversationFromDB(dbHistory[s])],
                     active, inflight)
        /\ timers' = T.timers
        /\ inactivityTimers' = T.map
        /\ hist' = [hist EXCEPT ![s] = [Did(@, "restore", 0, now) EXCEPT
                                          !.life = life, !.endCbs = 0]]
        /\ outcome' = "ok"
  /\ UNCHANGED <<now, inactivityWarnings, nextSweep, dbSessions, dbHistory,
                 inflight>>

\* sendMessage(uuid, 'therapist', content) up to the upstream call: throws
\* for an unknown session; else refreshes lastActivity, resets the timers,
\* stores the turn, pushes it on the transcript and calls the upstream
\* endpoint.
sendMessage(s) ==
  IF ~Registered(s)
  THEN /\ outcome' = "error"
       /\ UNCHANGED <<now, activeSessions, sessionObjects, inactivityTimers,
                      inactivityWarnings, timers, nextSweep, dbSessions,
                      dbHistory, inflight, hist>>
  ELSE /\ hist[s].turns < MaxTurns
       /\ CanArm(s, TS, 2)
       /\ LET obj == activeSessions[s].object
              turn == hist[s].turns + 1
              R == resetInactivityTimer(s, TS, inactivityWarnings, now, hist[s].life)
          IN /\ activeSessions' = [activeSessions EXCEPT ![s].lastActivity = now]
             /\ timers' = R.T.timers
             /\ inactivityTimers' = R.T.map
             /\ inactivityWarnings' = R.warnings
             /\ sessionObjects' = [sessionObjects EXCEPT ![s][obj] =
                                     Append(@, [role |-> "user", content |-> turn])]
             /\ inflight' = inflight \cup {[s |-> s, object |-> obj, turn |-> turn]}
             /\ hist' = [hist EXCEPT ![s] = [Did(@, "turn", 0, now) EXCEPT
                                               !.turns = turn]]
             /\ outcome' = "ok"
       /\ UNCHANGED <<now, nextSweep, dbSessions, dbHistory>>

\* The upstream call returns: claudeService.sendMessage stores the exchange
\* (the transcript array as it is now, and the response), then
\* SessionService.sendMessage stores the reply and pushes it on the
\* transcript of the session object it holds.
upstreamReply(c) ==
  /\ c \in inflight
  /\ LET calls == inflight \ {c}
         objs == [sessionObjects EXCEPT ![c.s][c.object] =
                    Append(@, [role |-> "assistant", content |-> c.turn])]
     IN /\ dbHistory' = [dbHistory EXCEPT ![c.s] =
                           Append(@, [messages |-> sessionObjects[c.s][c.object],
                                      response_content |-> c.turn])]
        /\ sessionObjects' = Collect(objs, activeSessions, calls)
        /\ inflight' = calls
  /\ outcome' = "ok"
  /\ UNCHANGED <<now, activeSessions, inactivityTimers, inactivityWarnings,
                 timers, nextSweep, dbSessions, hist>>

\* The upstream call fails (rate limit, authentication, server error):
\* claudeService.sendMessage throws and sendMessage rethrows.
upstreamError(c) ==
  /\ c \in inflight
  /\ inflight' = inflight \ {c}
  /\ sessionObjects' = Collect(sessionObjects, activeSessions, inflight \ {c})
  /\ outcome' = "error"
  /\ UNCHANGED <<now, activeSessions, inactivityTimers, inactivityWarnings,
                 timers, nextSweep, dbSessions, dbHistory, hist>>

\* The body of endSession for a registered session, on timer state T: the
\* row is updated, timers and warning flag are cleared, the session leaves
\* the registry.
EndEffects(s, T) ==
  LET C == clearInactivityTimer(s, T)
      active == [activeSessions EXCEPT ![s] = NoSession]
  IN /\ dbSessions' = [dbSessions EXCEPT ![s].status = "completed"]
     /\ timers' = C.timers
     /\ inactivityTimers' = C.map
     /\ inactivityWarnings' = clearInactivityWarning(s, inactivityWarnings)
     /\ activeSessions' = active
     /\ sessionObjects' = Collect(sessionObjects, active, inflight)

\* endSession: throws for an unknown session.
endSession(s) ==
  IF ~Registered(s)
  THEN /\ outcome' = "error"
       /\ UNCHANGED <<now, activeSessions, sessionObjects, inactivityTimers,
                      inactivityWarnings, timers, nextSweep, dbSessions,
                      dbHistory, inflight, hist>>
  ELSE /\ EndEffects(s, TS)
       /\ hist' = [hist EXCEPT ![s] = Did(@, "end", 0, now)]
       /\ outcome' = "ok"
       /\ UNCHANGED <<now, nextSweep, dbHistory, inflight>>

\* handleContinueSession: false for an unknown session; else refreshes
\* lastActivity, resets the timers, clears the warning flag.
handleContinueSession(s) ==
  IF ~Registered(s)
  THEN /\ outcome' = "error"
       /\ UNCHANGED <<now, activeSessions, sessionObjects, inactivityTimers,
                      inactivityWarnings, timers, nextSweep, dbSessions,
                      dbHistory, inflight, hist>>
  ELSE /\ CanArm(s, TS, 2)
       /\ LET R == resetInactivityTimer(s, TS, inactivityWarnings, now, hist[s].life)
          IN /\ activeSessions' = [activeSessions EXCEPT ![s].lastActivity = now]
             /\ timers' = R.T.timers
             /\ inactivityTimers' = R.T.map
             /\ inactivityWarnings' = clearInactivityWarning(s, R.warnings)
       /\ hist' = [hist EXCEPT ![s] = Did(@, "continue", 0, now)]
       /\ outcome' = "ok"
       /\ UNCHANGED <<now, sessionObjects, nextSweep, dbSessions, dbHistory,
                      inflight>>

\* handlePauseSession without the lookup of the session: the pause timer is
\* armed for any id.
handlePauseSessionUnchecked(s, pauseDuration) ==
  /\ CanArm(s, TS, 1)
  /\ LET C == clearInactivityTimer(s, TS)
         id == NewHandle(C, s, "pause", now + pauseDuration)
         P == SetTimeout(C, s, id, hist[s].life)
     IN /\ timers' = P.timers
        /\ inactivityTimers' =
             [P.map EXCEPT ![s] = [present |-> TRUE,
                                   warningTimer |-> Undefined,
                                   endTimer |-> Undefined,
                                   pauseTimer |-> id]]
        /\ inactivityWarnings' = clearInactivityWarning(s, inactivityWarnings)
  /\ hist' = [hist EXCEPT ![s] = Did(@, "pause", pauseDuration, now)]
  /\ outcome' = "ok"
  /\ UNCHANGED <<now, activeSessions, sessionObjects, nextSweep, dbSessions,
                 dbHistory, inflight>>

\* handlePauseSession: false for an unknown session; else refreshes
\* lastActivity, clears timers and warning flag, arms one timer of the given
\* duration whose callback is handleInactivityWarning, and stores
\* { pauseTimer } in inactivityTimers.
handlePauseSession(s, pauseDuration) ==
  IF ~Registered(s)
  THEN /\ outcome' = "error"
       /\ UNCHANGED <<now, activeSessions, sessionObjects, inactivityTimers,
                      inactivityWarnings, timers, nextSweep, dbSessions,
                      dbHistory, inflight, hist>>
  ELSE /\ CanArm(s, TS, 1)
       /\ LET C == clearInactivityTimer(s, TS)
              id == NewHandle(C, s, "pause", now + pauseDuration)
              P == SetTimeout(C, s, id, hist[s].life)
          IN /\ activeSessions' = [activeSessions EXCEPT ![s].lastActivity = now]
             /\ timers' = P.timers
             /\ inactivityTimers' =
                  [P.map EXCEPT ![s] = [present |-> TRUE,
                                        warningTimer |-> Undefined,
                                        endTimer |-> Undefined,
                                        pauseTimer |-> id]]
             /\ inactivityWarnings' = clearInactivityWarning(s, inactivityWarnings)
       /\ hist' = [hist EXCEPT ![s] = Did(@, "pause", pauseDuration, now)]
       /\ outcome' = "ok"
       /\ UNCHANGED <<now, sessionObjects, nextSweep, dbSessions, dbHistory,
                      inflight>>

(***************************************************************************)
(* Timer callbacks                                                         *)
(***************************************************************************)
\* A pending timer is due: the runtime removes it and runs its callback.
\* Warning and pause timers run handleInactivityWarning: nothing for an
\* unknown session, else the warning flag is set and the warning callback
\* invoked.  The end timer runs handleInactivityEnd: nothing for an unknown
\* session, else endSession and then the termination callback.
fireTimer(t) ==
  /\ t \in timers
  /\ t.at <= now
  /\ LET T == TimerState(timers \ {t}, inactivityTimers)
     IN IF ~Registered(t.s)
        THEN /\ timers' = T.timers
             /\ outcome' = "ok"
             /\ UNCHANGED <<activeSessions, sessionObjects, inactivityTimers,
                            inactivityWarnings, dbSessions, hist>>
        ELSE IF t.kind \in {"warning", "pause"}
        THEN /\ timers' = T.timers
             /\ inactivityWarnings' =
                  [inactivityWarnings EXCEPT ![t.s] =
                     [warningSent |-> TRUE, warningTime |-> now]]
             /\ hist' = [hist EXCEPT ![t.s].warned = Append(@, now),
                                     ![t.s].warnedSince = TRUE,
                                     ![t.s].stale = @ \/ t.life \in hist[t.s].ended]
             /\ outcome' = "ok"
             /\ UNCHANGED <<activeSessions, sessionObjects, inactivityTimers,
                            dbSessions>>
        ELSE /\ EndEffects(t.s, T)
             /\ hist' = [hist EXCEPT ![t.s] = [Did(@, "timeout", 0, now) EXCEPT
                                                 !.endCbs = @ + 1,
                                                 !.stale = @ \/ t.life \in hist[t.s].ended]]
             /\ outcome' = "ok"
  /\ UNCHANGED <<now, nextSweep, dbHistory, inflight>>

\* cleanupInactiveSessions, run by setInterval every 30 minutes: every
\* registered session older than maxInactiveTime has its timers cleared, is
\* deleted from the registry and its row set to cancelled.
RECURSIVE SweepTimers(_, _)
SweepTimers(todo, T) ==
  IF todo = {} THEN T
  ELSE LET s == CHOOSE x \in todo : TRUE
       IN SweepTimers(todo \ {s}, clearInactivityTimer(s, T))

\* The test of the sweep made on lastActivity instead of startTime.
OverdueSinceActivity(s) ==
  Registered(s) /\ now - activeSessions[s].lastActivity > maxInactiveTime

Overdue(s) == Registered(s) /\ now - activeSessions[s].startTime > maxInactiveTime

cleanupInactiveSessions ==
  /\ now = nextSweep
  /\ nextSweep' = nextSweep + SweepInterval
  /\ LET old == {s \in Sessions : Overdue(s)}
         T == SweepTimers(old, TS)
         active == [s \in Sessions |->
                      IF s \in old THEN NoSession ELSE activeSessions[s]]
     IN /\ timers' = T.timers
        /\ inactivityTimers' = T.map
        /\ activeSessions' = active
        /\ sessionObjects' = Collect(sessionObjects, active, inflight)
        /\ dbSessions' = [s \in Sessions |->
                            IF s \in old
                            THEN [dbSessions[s] EXCEPT !.status = "cancelled"]
                            ELSE dbSessions[s]]
        /\ hist' = [s \in Sessions |->
                      IF s \in old
                      THEN Did(hist[s], "sweep", 0, now)
                      ELSE hist[s]]
  /\ outcome' = "ok"
  /\ UNCHANGED <<now, inactivityWarnings, dbHistory, inflight>>

\* Time passes, once every due timer and a due sweep have run.
Tick ==
  /\ now < MaxTime
  /\ \A t \in timers : t.at > now
  /\ nextSweep > now
  /\ now' = now + 1
  /\ outcome' = "ok"
  /\ UNCHANGED <<activeSessions, sessionObjects, inactivityTimers,
                 inactivityWarnings, timers, nextSweep, dbSessions, dbHistory,
                 inflight, hist>>

(***************************************************************************)
(* SessionService: the registry seen per user                              *)
(***************************************************************************)
Users == {"u1", "u2"}
Uuids == 1..MaxRows

NoUserSession == [present |-> FALSE, userId |-> "none"]
NoUserRow == [status |-> "absent", user_id |-> "none"]

\* randomUUID(): a uuid no row carries yet.
FreshUuids == {id \in Uuids : userRows[id].status = "absent"}

\* The body of createSession for a user who owns the patient: a row is
\* inserted and an entry is set in activeSessions under the new uuid.  No
\* entry of the same user is looked up or removed.
InsertAndRegister(userId) ==
  /\ FreshUuids # {}
  /\ LET id == CHOOSE x \in FreshUuids : \A y \in FreshUuids : x <= y
     IN /\ userRows' = [userRows EXCEPT ![id] =
                          [status |-> "active", user_id |-> userId]]
        /\ userSessions' = [userSessions EXCEPT ![id] =
                              [present |-> TRUE, userId |-> userId]]
  /\ UNCHANGED overdueUpTo

\* createSession(userId, patientId)
createSessionFor(userId) == InsertAndRegister(userId)

\* startNewWeekSession(userId, patientId, previousSessionId): the previous
\* row must belong to the user; then createSession.
startNewWeekSession(userId, previousSessionId) ==
  /\ userRows[previousSessionId].status # "absent"
  /\ userRows[previousSessionId].user_id = userId
  /\ InsertAndRegister(userId)

\* continueSession(userId, sessionId): the row must belong to the user; an
\* entry is set in activeSessions under the uuid of the row.
continueSessionFor(userId, sessionId) ==
  /\ userRows[sessionId].status # "absent"
  /\ userRows[sessionId].user_id = userId
  /\ userSessions' = [userSessions EXCEPT ![sessionId] =
                        [present |-> TRUE, userId |-> userId]]
  /\ UNCHANGED <<userRows, overdueUpTo>>

\* endSession(sessionUuid), called by a handler or by handleInactivityEnd
\* when the end timer of the session fires.
endSessionOf(sessionUuid) ==
  /\ userSessions[sessionUuid].present
  /\ userRows' = [userRows EXCEPT ![sessionUuid].status = "completed"]
  /\ userSessions' = [userSessions EXCEPT ![sessionUuid] = NoUserSession]
  /\ UNCHANGED overdueUpTo

\* Time passes: the oldest row not yet older than maxInactiveTime gets older
\* than that.  Rows are numbered in the order of their started_at.
growOld ==
  /\ overdueUpTo < MaxRows
  /\ userRows[overdueUpTo + 1].status # "absent"
  /\ overdueUpTo' = overdueUpTo + 1
  /\ UNCHANGED <<userSessions, userRows>>

\* cleanupInactiveSessions: every entry whose startTime is more than
\* maxInactiveTime ago is deleted and its row set to cancelled.
cleanupUserSessions ==
  /\ \E id \in Uuids : userSessions[id].present /\ id <= overdueUpTo
  /\ userSessions' = [id \in Uuids |->
                        IF userSessions[id].present /\ id <= overdueUpTo
                        THEN NoUserSession ELSE userSessions[id]]
  /\ userRows' = [id \in Uuids |->
                    IF userSessions[id].present /\ id <= overdueUpTo
                    THEN [userRows[id] EXCEPT !.status = "cancelled"]
                    ELSE userRows[id]]
  /\ UNCHANGED overdueUpTo

\* getActiveSession(userId): the first entry of the user, or null.
getActiveSession(userId) ==
  {id \in Uuids : userSessions[id].present /\ userSessions[id].userId = userId}

(***************************************************************************)
(* SessionService.sendMessage and ClaudeService.sendMessage, step by step  *)
(* between their suspension points, for one registered session             *)
(***************************************************************************)
Calls == 1..MaxCalls

\* error.status of a rejected upstream request; 0 stands for an error
\* without status (undefined).
UpstreamStatuses == {429, 401, 500, 503, 400, 0}

\* A sendMessage call: pc is the await it is suspended at ("saved": the
\* first saveMessage; "upstream": client.messages.create; "recorded":
\* saveConversationToDB and recordMetrics; "replySaved": the second
\* saveMessage), or "done" (returned), or "failed" (threw).  cause, status
\* and errorClass describe the throw; attempts counts the calls of
\* client.messages.create; payload is the messages of the request; overlap
\* tells that another call was suspended when this one arrived; lost tells
\* that the insert into conversation_history failed.
NoCall == [pc |-> "idle", cause |-> "none", status |-> 0, errorClass |-> "none",
           attempts |-> 0, payload |-> <<>>, overlap |-> FALSE, lost |-> FALSE]

Suspended(c) == c.pc \in {"saved", "upstream", "recorded", "replySaved"}

TherapistTurn(k) == [role |-> "user", content |-> k]
PatientTurn(k) == [role |-> "assistant", content |-> k]

\* The catch of ClaudeService.sendMessage: the message of the error thrown
\* on, by error.status.
classifyUpstreamError(status) ==
  IF status = 429 THEN "rateLimited"
  ELSE IF status = 401 THEN "authentication"
  ELSE IF status >= 500 THEN "server"
  ELSE "other"

\* The request of call k for the transcript as it is when it is built.
RequestMessages(msgs) ==
  buildMessagesWithCache(msgs, NullText, [isNewWeek |-> FALSE],
                         [mode |-> "fallback", count |-> 0]).messages

\* SessionService.sendMessage up to its first await: the session is found,
\* the timers are reset, saveMessage runs its INSERT.  A failing INSERT is
\* logged and thrown on by saveMessage, and sendMessage throws.
turnArrives(k) ==
  /\ turnCalls[k].pc = "idle"
  /\ k > 1 => turnCalls[k - 1].pc # "idle"
  /\ \E stored \in BOOLEAN :
       LET ov == \E j \in Calls : Suspended(turnCalls[j])
       IN IF stored
          THEN /\ messageRows' = Append(messageRows,
                                        [sender |-> "therapist", content |-> k])
               /\ turnCalls' = [turnCalls EXCEPT ![k].pc = "saved", ![k].overlap = ov]
          ELSE /\ messageRows' = messageRows
               /\ turnCalls' = [turnCalls EXCEPT ![k].pc = "failed", ![k].cause = "store",
                                         ![k].overlap = ov]
  /\ UNCHANGED <<transcript, conversationRows>>

\* After the first await: the therapist turn is pushed and
\* claudeService.sendMessage runs up to client.messages.create: the rate
\* limiter admits the call or not, the request is built from the transcript.
\* A call that is not admitted throws inside the try and leaves through the
\* catch as an error without status.
turnPushed(k) ==
  /\ turnCalls[k].pc = "saved"
  /\ transcript' = Append(transcript, TherapistTurn(k))
  /\ \E admitted \in BOOLEAN :
       IF admitted
       THEN turnCalls' = [turnCalls EXCEPT ![k].pc = "upstream", ![k].attempts = @ + 1,
                                   ![k].payload = RequestMessages(transcript')]
       ELSE turnCalls' = [turnCalls EXCEPT ![k].pc = "failed", ![k].cause = "rateLimit",
                                   ![k].errorClass = classifyUpstreamError(0)]
  /\ UNCHANGED <<messageRows, conversationRows>>

\* client.messages.create resolves: saveConversationToDB stringifies the
\* messages array it was given, which is the transcript of the session as it
\* is now, and inserts it with the response; a failing INSERT is logged and
\* swallowed.
upstreamReturns(k) ==
  /\ turnCalls[k].pc = "upstream"
  /\ \E stored \in BOOLEAN :
       IF stored
       THEN /\ conversationRows' =
                 Append(conversationRows,
                        [messages |-> transcript, response_content |-> k])
            /\ turnCalls' = [turnCalls EXCEPT ![k].pc = "recorded"]
       ELSE /\ conversationRows' = conversationRows
            /\ turnCalls' = [turnCalls EXCEPT ![k].pc = "recorded", ![k].lost = TRUE]
  /\ UNCHANGED <<transcript, messageRows>>

\* upstreamFails that also takes the therapist turn back.
upstreamFailsDroppingTurn(k, status) ==
  /\ turnCalls[k].pc = "upstream"
  /\ turnCalls' = [turnCalls EXCEPT ![k].pc = "failed", ![k].cause = "upstream",
                            ![k].status = status,
                            ![k].errorClass = classifyUpstreamError(status)]
  /\ transcript' = SelectSeq(transcript, LAMBDA m : m # TherapistTurn(k))
  /\ UNCHANGED <<messageRows, conversationRows>>

\* client.messages.create rejects: the catch of ClaudeService.sendMessage
\* throws an error chosen by error.status, and SessionService.sendMessage
\* logs and throws it on.
upstreamFails(k, status) ==
  /\ turnCalls[k].pc = "upstream"
  /\ turnCalls' = [turnCalls EXCEPT ![k].pc = "failed", ![k].cause = "upstream",
                            ![k].status = status,
                            ![k].errorClass = classifyUpstreamError(status)]
  /\ UNCHANGED <<transcript, messageRows, conversationRows>>

\* claudeService.sendMessage returns: the second saveMessage runs its INSERT;
\* a failing INSERT makes sendMessage throw before the reply is pushed.
replyReturned(k) ==
  /\ turnCalls[k].pc = "recorded"
  /\ \E stored \in BOOLEAN :
       IF stored
       THEN /\ messageRows' = Append(messageRows,
                                     [sender |-> "patient", content |-> k])
            /\ turnCalls' = [turnCalls EXCEPT ![k].pc = "replySaved"]
       ELSE /\ messageRows' = messageRows
            /\ turnCalls' = [turnCalls EXCEPT ![k].pc = "failed", ![k].cause = "store"]
  /\ UNCHANGED <<transcript, conversationRows>>

\* After the last await: the reply is pushed and sendMessage returns.
replyPushed(k) ==
  /\ turnCalls[k].pc = "replySaved"
  /\ transcript' = Append(transcript, PatientTurn(k))
  /\ turnCalls' = [turnCalls EXCEPT ![k].pc = "done"]
  /\ UNCHANGED <<messageRows, conversationRows>>

InitTurnVars ==
  /\ transcript = <<>>
  /\ turnCalls = [k \in Calls |-> NoCall]
  /\ messageRows = <<>>
  /\ conversationRows = <<>>

IdleTurnVars ==
  /\ transcript = <<>>
  /\ turnCalls = [k \in Calls |-> NoCall]
  /\ messageRows = <<>>
  /\ conversationRows = <<>>

(***************************************************************************)
(* ClaudeService.checkRateLimit                                            *)
(***************************************************************************)
\* config.security.rateLimit, as set by RATE_LIMIT_WINDOW_MS and
\* RATE_LIMIT_MAX_REQUESTS.
windowMs == 60000
maxRequests == 5

\* The user who calls.
RateUsers == {"u1"}

\* The clock moves on by one millisecond or by 4 ms less than the window.
ClockSteps == {1, windowMs - 4}

\* The last call: its number, its user, how many timestamps the map held for
\* the user when it was made, and its result.
NoCheck == [seq |-> 0, userId |-> "none", held |-> 0, admitted |-> FALSE]

\* The filter with "<=" in place of "<".
validRequestsInclusive(userRequests, t) ==
  SelectSeq(userRequests, LAMBDA timestamp : t - timestamp <= windowMs)

\* userRequests.filter(timestamp => now - timestamp < windowMs)
validRequests(userRequests, t) ==
  SelectSeq(userRequests, LAMBDA timestamp : t - timestamp < windowMs)

\* checkRateLimit that records the timestamp of a rejected call too.
checkRateLimitRecordsRejected(userId) ==
  /\ lastCheck.seq < MaxChecks
  /\ LET valid == validRequests(rateLimiter[userId], clock.ms)
         pass == Len(valid) < maxRequests
     IN /\ rateLimiter' = [rateLimiter EXCEPT ![userId] = Append(valid, clock.ms)]
        /\ lastCheck' = [seq |-> lastCheck.seq + 1, userId |-> userId,
                         held |-> Len(rateLimiter[userId]), admitted |-> pass]
  /\ UNCHANGED clock

\* checkRateLimit(userId): false when maxRequests valid timestamps are
\* recorded, and the map is left as it is; else now is pushed on the valid
\* timestamps, the list is set in the map, and the result is true.
checkRateLimit(userId) ==
  /\ lastCheck.seq < MaxChecks
  /\ LET valid == validRequests(rateLimiter[userId], clock.ms)
         pass == Len(valid) < maxRequests
     IN /\ rateLimiter' = IF pass
                          THEN [rateLimiter EXCEPT ![userId] = Append(valid, clock.ms)]
                          ELSE rateLimiter
        /\ lastCheck' = [seq |-> lastCheck.seq + 1, userId |-> userId,
                         held |-> Len(rateLimiter[userId]), admitted |-> pass]
  /\ UNCHANGED clock

\* Date.now() grows.
clockAdvances(d) ==
  /\ clock.advances < MaxAdvances
  /\ clock' = [ms |-> clock.ms + d, advances |-> clock.advances + 1]
  /\ UNCHANGED <<rateLimiter, lastCheck>>

InitRateVars ==
  /\ rateLimiter = [u \in RateUsers |-> <<>>]
  /\ clock = [ms |-> 0, advances |-> 0]
  /\ lastCheck = NoCheck

IdleRateVars ==
  /\ rateLimiter = [u \in RateUsers |-> <<>>]
  /\ clock = [ms |-> 0, advances |-> 0]
  /\ lastCheck = NoCheck

(***************************************************************************)
(* Removal paths when the UPDATE of the sessions row throws                *)
(***************************************************************************)
\* endSession whose updateSession.run throws: the statements after it do
\* not run, the catch logs and rethrows.
endSessionStoreFails(s) ==
  /\ Registered(s)
  /\ outcome' = "error"
  /\ UNCHANGED <<now, activeSessions, sessionObjects, inactivityTimers,
                 inactivityWarnings, timers, nextSweep, dbSessions, dbHistory,
                 inflight, hist>>

\* The end timer is due and the endSession it awaits throws: the runtime has
\* removed the timer, handleInactivityEnd logs the error, the termination
\* callback is not invoked.
endTimerStoreFails(t) ==
  /\ t \in timers
  /\ t.at <= now
  /\ t.kind = "end"
  /\ Registered(t.s)
  /\ timers' = timers \ {t}
  /\ outcome' = "error"
  /\ UNCHANGED <<now, activeSessions, sessionObjects, inactivityTimers,
                 inactivityWarnings, nextSweep, dbSessions, dbHistory, inflight,
                 hist>>

\* cleanupInactiveSessions whose UPDATE throws for the overdue session s:
\* the sessions before it in the loop are swept, s has its timers cleared
\* and is deleted from the registry, then the exception leaves the loop and
\* the interval callback, and the uncaughtException handler shuts down.
cleanupStoreFails(s) ==
  /\ now = nextSweep
  /\ Overdue(s)
  /\ \E before \in SUBSET ({x \in Sessions : Overdue(x)} \ {s}) :
       LET old == before \cup {s}
           T == SweepTimers(old, TS)
           active == [x \in Sessions |->
                        IF x \in old THEN NoSession ELSE activeSessions[x]]
       IN /\ timers' = T.timers
          /\ inactivityTimers' = T.map
          /\ activeSessions' = active
          /\ sessionObjects' = Collect(sessionObjects, active, inflight)
          /\ dbSessions' = [x \in Sessions |->
                              IF x \in before
                              THEN [dbSessions[x] EXCEPT !.status = "cancelled"]
                              ELSE dbSessions[x]]
          /\ hist' = [x \in Sessions |->
                        IF x \in old
                        THEN Did(hist[x], "sweep", 0, now)
                        ELSE hist[x]]
  /\ outcome' = "fatal"
  /\ UNCHANGED <<now, nextSweep, inactivityWarnings, dbHistory, inflight>>

(***************************************************************************)
(* buildMessagesWithCache called with any value as transcript              *)
(***************************************************************************)
\* What the messages argument is.
InputKinds == {"array", "null", "object"}

\* The role of an element: a valid one, another string, or no role key.
RawRoles == {"user", "assistant", "system", "undefined"}

\* The content of an element without content key.
NoContent == 0 - 1

ValidTurn(msg) == msg.role \in Roles /\ msg.content # NoContent

\* The call throws.
Thrown(name) == [returned |-> FALSE, messages |-> <<>>, system |-> <<>>,
                 thrown |-> name]

\* buildMessagesWithCache on any argument.  null has no length: TypeError.
\* For an object without length, messageCount <= 10 is false and
\* messages.slice is not a function: TypeError.  An array goes through
\* whatever its elements are: role and content are copied as they are.
buildMessagesWithCacheRaw(kind, msgs, prompt, opts, tok) ==
  IF kind = "array"
  THEN buildMessagesWithCache(msgs, prompt, opts, tok)
  ELSE Thrown("TypeError")

\* One more element of any shape in the array.
PushRawTurn ==
  /\ inputKind = "array"
  /\ Len(messages) < MaxRawMessages
  /\ \E role \in RawRoles, hasContent \in BOOLEAN :
       messages' = Append(messages,
                          [role |-> role,
                           content |-> IF hasContent THEN Len(messages) + 1
                                       ELSE NoContent,
                           cache_control |-> FALSE])
  /\ result' = NoResult
  /\ UNCHANGED <<systemPrompt, tokenizer, options, inputKind>>

BuildRaw ==
  /\ result = NoResult
  /\ result' = buildMessagesWithCacheRaw(inputKind, messages, systemPrompt,
                                         options, tokenizer)
  /\ UNCHANGED <<messages, systemPrompt, tokenizer, options, inputKind>>

InitRawVars == inputKind \in InputKinds

IdleRawVars == inputKind = "array"

(***************************************************************************)
(* calculateTokens called on any value                                     *)
(***************************************************************************)
\* A value that is not a string: its kind and, where it has one, its length
\* property.
NonString(kind, n) == [isString |-> FALSE, len |-> n, kind |-> kind]

\* The arguments: strings of every length up to MaxTextLen, null, undefined,
\* the numbers 0 and 5, an object, an array of 5 elements.
TextValues ==
  {[isString |-> TRUE, len |-> n, kind |-> "string"] : n \in 0..MaxTextLen}
    \cup {NonString("null", 0), NonString("undefined", 0), NonString("zero", 0),
          NonString("number", 0), NonString("object", 0), NonString("array", 5)}

\* getTokenCount is not a function, throws, or returns a count.
TokenizerStates ==
  {[mode |-> "absent", count |-> 0], [mode |-> "throws", count |-> 0]}
    \cup {[mode |-> "precise", count |-> c] : c \in 0..MaxCount}

\* No call made yet.
NoTokens == 0 - 1

\* Another argument, another state of the tokenizer.
chooseText ==
  /\ tokens # NoTokens
  /\ textArg' \in TextValues
  /\ getTokenCount' \in TokenizerStates
  /\ tokens' = NoTokens

\* const n = this.calculateTokens(textArg)
estimateTokens ==
  /\ tokens = NoTokens
  /\ tokens' = calculateTokens(textArg, getTokenCount)
  /\ UNCHANGED <<textArg, getTokenCount>>

InitTokenVars ==
  /\ textArg \in TextValues
  /\ getTokenCount \in TokenizerStates
  /\ tokens = NoTokens

IdleTokenVars ==
  /\ textArg = NonString("null", 0)
  /\ getTokenCount = [mode |-> "absent", count |-> 0]
  /\ tokens = NoTokens

(***************************************************************************)
(* summarizeConversationHistory called on a run of turns                   *)
(***************************************************************************)
\* What a turn of the run may say.
Utterances == { <<"Horosho">>, <<"strashno">>, <<"net">>, <<"sil">>, <<"ustalost">> }

NoSummary == <<>>

MissingRun == [present |-> FALSE, turns |-> <<>>]

\* summarizeConversationHistory on any argument: !messages gives the
\* placeholder as the empty array does.
summarizeAny(arg) ==
  IF ~arg.present THEN << [kind |-> "placeholder"] >>
  ELSE summarizeConversationHistory(arg.turns)

Spoken(turns) == Cardinality({i \in 1..Len(turns) : turns[i].words # <<>>})

\* One more turn without words; its role is not the role of the turn before.
pushSilentTurn ==
  /\ olderTurns.present
  /\ Len(olderTurns.turns) < MaxRun
  /\ \E role \in Roles :
       /\ Len(olderTurns.turns) > 0 =>
            role # olderTurns.turns[Len(olderTurns.turns)].role
       /\ olderTurns' =
            [olderTurns EXCEPT !.turns =
               Append(@, [role |-> role, content |-> Len(@) + 1,
                          words |-> <<>>, cache_control |-> FALSE])]
  /\ summary' = NoSummary

\* One more turn that says something, of either role.
pushSpokenTurn ==
  /\ olderTurns.present
  /\ Len(olderTurns.turns) < MaxRun
  /\ Spoken(olderTurns.turns) < MaxSpoken
  /\ \E role \in Roles, words \in Utterances :
       olderTurns' =
         [olderTurns EXCEPT !.turns =
            Append(@, [role |-> role, content |-> Len(@) + 1,
                       words |-> words, cache_control |-> FALSE])]
  /\ summary' = NoSummary

\* conversationHistory = this.summarizeConversationHistory(oldMessages)
summarizeRun ==
  /\ summary = NoSummary
  /\ summary' = summarizeAny(olderTurns)
  /\ UNCHANGED olderTurns

InitSummaryVars ==
  /\ olderTurns \in {MissingRun, [present |-> TRUE, turns |-> <<>>]}
  /\ summary = NoSummary

IdleSummaryVars ==
  /\ olderTurns = MissingRun
  /\ summary = NoSummary

(***************************************************************************)
(* ClaudeService.cleanupRateLimiter, run every 5 minutes                   *)
(***************************************************************************)
\* The users who call while the sweep runs.
SweepUsers == {"u1", "u2"}

\* The time between two events, in ms: a little, or nearly a whole window.
SweepSteps == {4, windowMs - 4}

\* The sweep that deletes the entry of every user whose oldest timestamp has
\* left the window.
cleanupRateLimiterByOldest ==
  /\ rateLimiter' =
       [u \in DOMAIN rateLimiter |->
          IF rateLimiter[u] # <<>> /\ clock.ms - rateLimiter[u][1] >= windowMs
          THEN <<>> ELSE rateLimiter[u]]
  /\ UNCHANGED <<clock, lastCheck, unswept>>

\* cleanupRateLimiter: every entry of the map is replaced by its valid
\* timestamps, and deleted when none is left.  A user without entry has the
\* empty list.
cleanupRateLimiter ==
  /\ rateLimiter' =
       [u \in DOMAIN rateLimiter |-> validRequests(rateLimiter[u], clock.ms)]
  /\ UNCHANGED <<clock, lastCheck, unswept>>

\* checkRateLimit(userId) made on the map and, with the same clock, on the
\* map that no sweep has touched.
checkRateLimitOnBoth(userId) ==
  /\ checkRateLimit(userId)
  /\ LET valid == validRequests(unswept.table[userId], clock.ms)
         pass == Len(valid) < maxRequests
     IN unswept' = [table |-> IF pass
                              THEN [unswept.table EXCEPT
                                      ![userId] = Append(valid, clock.ms)]
                              ELSE unswept.table,
                    admitted |-> pass]

InitSweepVars ==
  /\ rateLimiter = [u \in SweepUsers |-> <<>>]
  /\ clock = [ms |-> 0, advances |-> 0]
  /\ lastCheck = NoCheck
  /\ unswept = [table |-> [u \in SweepUsers |-> <<>>], admitted |-> FALSE]

IdleSweepVars == unswept = [table |-> <<>>, admitted |-> FALSE]

InitUserVars ==
  /\ userSessions = [id \in Uuids |-> NoUserSession]
  /\ userRows = [id \in Uuids |-> NoUserRow]
  /\ overdueUpTo = 0

IdleUserVars ==
  /\ userSessions = [id \in Uuids |-> NoUserSession]
  /\ userRows = [id \in Uuids |-> NoUserRow]
  /\ overdueUpTo = 0

IdleMoreVars == IdleTokenVars /\ IdleSummaryVars /\ IdleSweepVars

IdleExtraVars ==
  IdleUserVars /\ IdleTurnVars /\ IdleRateVars /\ IdleRawVars /\ IdleMoreVars

(***************************************************************************)
(* Specifications                                                          *)
(***************************************************************************)
InitSessionVars ==
  /\ now = 0
  /\ activeSessions = [s \in Sessions |-> NoSession]
  /\ sessionObjects = [s \in Sessions |-> [l \in Lives |-> <<>>]]
  /\ inactivityTimers = [s \in Sessions |-> NoEntry]
  /\ inactivityWarnings = [s \in Sessions |-> NoWarning]
  /\ timers = {}
  /\ nextSweep = FirstSweep
  /\ dbSessions \in [Sessions ->
                       {NoRow} \cup {[status |-> "active", started_at |-> o] :
                                       o \in OldStarts}]
  /\ dbHistory = [s \in Sessions |->
                    IF dbSessions[s].status = "absent" THEN <<>> ELSE OldHistory]
  /\ inflight = {}
  /\ hist = [s \in Sessions |-> NoHist]
  /\ outcome = "ok"

IdleSessionVars ==
  /\ now = 0
  /\ activeSessions = [s \in Sessions |-> NoSession]
  /\ sessionObjects = [s \in Sessions |-> [l \in Lives |-> <<>>]]
  /\ inactivityTimers = [s \in Sessions |-> NoEntry]
  /\ inactivityWarnings = [s \in Sessions |-> NoWarning]
  /\ timers = {}
  /\ nextSweep = SweepInterval
  /\ dbSessions = [s \in Sessions |-> NoRow]
  /\ dbHistory = [s \in Sessions |-> <<>>]
  /\ inflight = {}
  /\ hist = [s \in Sessions |-> NoHist]
  /\ outcome = "ok"

Init == InitSessionVars /\ IdleCacheVars /\ IdleExtraVars

Next ==
  \/ \E s \in Sessions : createSession(s) /\ UNCHANGED <<cacheVars, extraVars>>
  \/ \E s \in Sessions : continueSession(s) /\ UNCHANGED <<cacheVars, extraVars>>
  \/ \E s \in Sessions : sendMessage(s) /\ UNCHANGED <<cacheVars, extraVars>>
  \/ \E c \in inflight : upstreamReply(c) /\ UNCHANGED <<cacheVars, extraVars>>
  \/ \E c \in inflight : upstreamError(c) /\ UNCHANGED <<cacheVars, extraVars>>
  \/ \E s \in Sessions : endSession(s) /\ UNCHANGED <<cacheVars, extraVars>>
  \/ \E s \in Sessions : handleContinueSession(s) /\ UNCHANGED <<cacheVars, extraVars>>
  \/ \E s \in Sessions, d \in PauseDurations :
       handlePauseSession(s, d) /\ UNCHANGED <<cacheVars, extraVars>>
  \/ \E t \in timers : fireTimer(t) /\ UNCHANGED <<cacheVars, extraVars>>
  \/ cleanupInactiveSessions /\ UNCHANGED <<cacheVars, extraVars>>
  \/ Tick /\ UNCHANGED <<cacheVars, extraVars>>

Spec == Init /\ [][Next]_vars

InitCache == InitCacheVars /\ IdleSessionVars /\ IdleExtraVars

NextCache ==
  \/ PushTurn /\ UNCHANGED <<sessionVars, extraVars>>
  \/ Build /\ UNCHANGED <<sessionVars, extraVars>>

SpecCache == InitCache /\ [][NextCache]_vars

InitUsers ==
  InitUserVars /\ IdleSessionVars /\ IdleCacheVars /\ IdleTurnVars /\ IdleRateVars
  /\ IdleRawVars /\ IdleMoreVars

NextUsers ==
  \/ \E u \in Users : createSessionFor(u) /\ UNCHANGED <<sessionVars, cacheVars, turnVars, rateVars, rawVars, moreVars>>
  \/ \E u \in Users, id \in Uuids :
       startNewWeekSession(u, id) /\ UNCHANGED <<sessionVars, cacheVars, turnVars, rateVars, rawVars, moreVars>>
  \/ \E u \in Users, id \in Uuids :
       continueSessionFor(u, id) /\ UNCHANGED <<sessionVars, cacheVars, turnVars, rateVars, rawVars, moreVars>>
  \/ \E id \in Uuids : endSessionOf(id) /\ UNCHANGED <<sessionVars, cacheVars, turnVars, rateVars, rawVars, moreVars>>
  \/ growOld /\ UNCHANGED <<sessionVars, cacheVars, turnVars, rateVars, rawVars, moreVars>>
  \/ cleanupUserSessions /\ UNCHANGED <<sessionVars, cacheVars, turnVars, rateVars, rawVars, moreVars>>

SpecUsers == InitUsers /\ [][NextUsers]_vars

InitTurns ==
  InitTurnVars /\ IdleSessionVars /\ IdleCacheVars /\ IdleUserVars /\ IdleRateVars
  /\ IdleRawVars /\ IdleMoreVars

NextTurns ==
  \/ \E k \in Calls : turnArrives(k) /\ UNCHANGED <<sessionVars, cacheVars, userVars, rateVars, rawVars, moreVars>>
  \/ \E k \in Calls : turnPushed(k) /\ UNCHANGED <<sessionVars, cacheVars, userVars, rateVars, rawVars, moreVars>>
  \/ \E k \in Calls : upstreamReturns(k) /\ UNCHANGED <<sessionVars, cacheVars, userVars, rateVars, rawVars, moreVars>>
  \/ \E k \in Calls, status \in UpstreamStatuses :
       upstreamFails(k, status) /\ UNCHANGED <<sessionVars, cacheVars, userVars, rateVars, rawVars, moreVars>>
  \/ \E k \in Calls : replyReturned(k) /\ UNCHANGED <<sessionVars, cacheVars, userVars, rateVars, rawVars, moreVars>>
  \/ \E k \in Calls : replyPushed(k) /\ UNCHANGED <<sessionVars, cacheVars, userVars, rateVars, rawVars, moreVars>>

SpecTurns == InitTurns /\ [][NextTurns]_vars

InitRate ==
  InitRateVars /\ IdleSessionVars /\ IdleCacheVars /\ IdleUserVars /\ IdleTurnVars
  /\ IdleRawVars /\ IdleMoreVars

NextRate ==
  \/ \E u \in RateUsers :
       checkRateLimit(u) /\ UNCHANGED <<sessionVars, cacheVars, userVars, turnVars, rawVars, moreVars>>
  \/ \E d \in ClockSteps :
       clockAdvances(d) /\ UNCHANGED <<sessionVars, cacheVars, userVars, turnVars, rawVars, moreVars>>

SpecRate == InitRate /\ [][NextRate]_vars

InitRaw ==
  InitRawVars /\ InitCacheVars /\ IdleSessionVars /\ IdleUserVars /\ IdleTurnVars
  /\ IdleRateVars /\ IdleMoreVars

NextRaw ==
  \/ PushRawTurn /\ UNCHANGED <<sessionVars, userVars, turnVars, rateVars, moreVars>>
  \/ BuildRaw /\ UNCHANGED <<sessionVars, userVars, turnVars, rateVars, moreVars>>

SpecRaw == InitRaw /\ [][NextRaw]_vars

InitTokens ==
  InitTokenVars /\ IdleSessionVars /\ IdleCacheVars /\ IdleUserVars /\ IdleTurnVars
  /\ IdleRateVars /\ IdleRawVars /\ IdleSummaryVars /\ IdleSweepVars

NextTokens ==
  \/ chooseText /\ UNCHANGED <<sessionVars, cacheVars, userVars, turnVars, rateVars, rawVars, summaryVars, sweepVars>>
  \/ estimateTokens /\ UNCHANGED <<sessionVars, cacheVars, userVars, turnVars, rateVars, rawVars, summaryVars, sweepVars>>

SpecTokens == InitTokens /\ [][NextTokens]_vars

InitSummary ==
  InitSummaryVars /\ IdleSessionVars /\ IdleCacheVars /\ IdleUserVars /\ IdleTurnVars
  /\ IdleRateVars /\ IdleRawVars /\ IdleTokenVars /\ IdleSweepVars

NextSummary ==
  \/ pushSilentTurn /\ UNCHANGED <<sessionVars, cacheVars, userVars, turnVars, rateVars, rawVars, tokenVars, sweepVars>>
  \/ pushSpokenTurn /\ UNCHANGED <<sessionVars, cacheVars, userVars, turnVars, rateVars, rawVars, tokenVars, sweepVars>>
  \/ summarizeRun /\ UNCHANGED <<sessionVars, cacheVars, userVars, turnVars, rateVars, rawVars, tokenVars, sweepVars>>

SpecSummary == InitSummary /\ [][NextSummary]_vars

\* The clock of the long run stops one sweep period after the ceiling of a
\* session registered at RegisterBy: a sweep runs in between.
LiveHorizon == RegisterBy + maxInactiveTime + SweepInterval

\* Time passes beyond MaxTime, once every due timer and a due sweep have run:
\* the clock moves to the next instant at which a timer or the sweep is due.
LateTick ==
  /\ now >= MaxTime
  /\ now < LiveHorizon
  /\ \A t \in timers : t.at > now
  /\ nextSweep > now
  /\ LET due == {t.at : t \in timers} \cup {nextSweep, LiveHorizon}
     IN now' = CHOOSE d \in due : \A e \in due : d <= e
  /\ outcome' = "ok"
  /\ UNCHANGED <<activeSessions, sessionObjects, inactivityTimers,
                 inactivityWarnings, timers, nextSweep, dbSessions, dbHistory,
                 inflight, hist>>

\* The runtime's steps: time passes, a due timer fires, the sweep runs.
RuntimeStep ==
  \/ Tick /\ UNCHANGED <<cacheVars, extraVars>>
  \/ LateTick /\ UNCHANGED <<cacheVars, extraVars>>
  \/ \E t \in timers : fireTimer(t) /\ UNCHANGED <<cacheVars, extraVars>>
  \/ cleanupInactiveSessions /\ UNCHANGED <<cacheVars, extraVars>>

\* The session operations over a long run: sessions are registered up to
\* RegisterBy, turns, continues and pauses come at any time.
NextLive ==
  \/ \E s \in Sessions :
       now <= RegisterBy /\ createSession(s) /\ UNCHANGED <<cacheVars, extraVars>>
  \/ \E s \in Sessions :
       now <= RegisterBy /\ continueSession(s) /\ UNCHANGED <<cacheVars, extraVars>>
  \/ \E s \in Sessions : sendMessage(s) /\ UNCHANGED <<cacheVars, extraVars>>
  \/ \E c \in inflight : upstreamReply(c) /\ UNCHANGED <<cacheVars, extraVars>>
  \/ \E s \in Sessions : handleContinueSession(s) /\ UNCHANGED <<cacheVars, extraVars>>
  \/ \E s \in Sessions, d \in PauseDurations :
       handlePauseSession(s, d) /\ UNCHANGED <<cacheVars, extraVars>>
  \/ Tick /\ UNCHANGED <<cacheVars, extraVars>>
  \/ LateTick /\ UNCHANGED <<cacheVars, extraVars>>
  \/ \E t \in timers : fireTimer(t) /\ UNCHANGED <<cacheVars, extraVars>>
  \/ cleanupInactiveSessions /\ UNCHANGED <<cacheVars, extraVars>>

\* Timers and the interval of the sweep are run by the event loop: a step of
\* the runtime that stays possible is eventually taken.
SpecLive == Init /\ [][NextLive]_vars /\ WF_vars(RuntimeStep)

InitSweep ==
  InitSweepVars /\ IdleSessionVars /\ IdleCacheVars /\ IdleUserVars /\ IdleTurnVars
  /\ IdleRawVars /\ IdleTokenVars /\ IdleSummaryVars

NextSweep ==
  \/ \E u \in SweepUsers :
       checkRateLimitOnBoth(u)
         /\ UNCHANGED <<sessionVars, cacheVars, userVars, turnVars, rawVars, tokenVars, summaryVars>>
  \/ \E d \in SweepSteps :
       /\ clock.advances < MaxSweepAdvances
       /\ clockAdvances(d)
       /\ UNCHANGED <<sessionVars, cacheVars, userVars, turnVars, rawVars, moreVars>>
  \/ cleanupRateLimiter
       /\ UNCHANGED <<sessionVars, cacheVars, userVars, turnVars, rawVars, tokenVars, summaryVars>>

SpecSweep == InitSweep /\ [][NextSweep]_vars

\* The process has not shut down.
Running == outcome # "fatal"

\* The session operations with a store that may refuse the final UPDATE;
\* nothing runs after the shutdown.
NextStore ==
  \/ \E s \in Sessions : Running /\ createSession(s) /\ UNCHANGED <<cacheVars, extraVars>>
  \/ \E s \in Sessions : Running /\ continueSession(s) /\ UNCHANGED <<cacheVars, extraVars>>
  \/ \E s \in Sessions : Running /\ sendMessage(s) /\ UNCHANGED <<cacheVars, extraVars>>
  \/ \E c \in inflight : Running /\ upstreamReply(c) /\ UNCHANGED <<cacheVars, extraVars>>
  \/ \E s \in Sessions : Running /\ endSession(s) /\ UNCHANGED <<cacheVars, extraVars>>
  \/ \E s \in Sessions : Running /\ endSessionStoreFails(s) /\ UNCHANGED <<cacheVars, extraVars>>
  \/ \E t \in timers : Running /\ fireTimer(t) /\ UNCHANGED <<cacheVars, extraVars>>
  \/ \E t \in timers : Running /\ endTimerStoreFails(t) /\ UNCHANGED <<cacheVars, extraVars>>
  \/ Running /\ cleanupInactiveSessions /\ UNCHANGED <<cacheVars, extraVars>>
  \/ \E s \in Sessions : Running /\ cleanupStoreFails(s) /\ UNCHANGED <<cacheVars, extraVars>>
  \/ Running /\ Tick /\ UNCHANGED <<cacheVars, extraVars>>

SpecStore == Init /\ [][NextStore]_vars


(***************************************************************************)
(* Properties of buildMessagesWithCache (SpecCache)                        *)
(***************************************************************************)
messageCount == Len(messages)
systemTokens == calculateTokens(systemPrompt, tokenizer)

\* What a payload looks like, read off the returned object alone.
IsSimple(r) ==
  /\ Len(r.messages) = messageCount
  /\ \A i \in 1..Len(r.system) :
       r.system[i].context = "none" /\ r.system[i].history = <<>>
       /\ r.system[i].base = systemPrompt

IsWindow(r) ==
  /\ Len(r.system) = 1
  /\ r.system[1].context \in {"sameSession", "newWeek"}
  /\ r.system[1].base = systemPrompt

IsLiteral(r) == \A i \in 1..Len(r.system[1].history) : r.system[1].history[i].kind = "line"
IsSummary(r) ==
  /\ r.system[1].history # <<>>
  /\ \A i \in 1..Len(r.system[1].history) :
       r.system[1].history[i].kind \in {"segment", "placeholder"}

Annotated(r) == Len(r.system) = 1 /\ r.system[1].cache_control
NotAnnotated(r) == \A i \in 1..Len(r.system) : ~r.system[i].cache_control

C2_MessagesAreSuffix ==
  result.returned =>
    LET kept == IF messageCount > 10 THEN 6 ELSE messageCount
    IN /\ Len(result.messages) = kept
       /\ \A i \in 1..Len(result.messages) :
            /\ messageCount - kept + i \in 1..messageCount
            /\ result.messages[i].content = messages[messageCount - kept + i].content
            /\ result.messages[i].role = messages[messageCount - kept + i].role

C2_Witness ==
  result.returned /\ messageCount > 10 /\ Len(result.messages) = 6
  /\ result.messages[1].content = messageCount - 5

\* C3: no element of the messages of a payload carries a cache annotation,
\* also when turns of the transcript carry one; only the one system segment
\* may carry it.
C3_NoAnnotatedMessage ==
  result.returned =>
    /\ \A i \in 1..Len(result.messages) : ~result.messages[i].cache_control
    /\ Len(result.system) <= 1

C3_Witness ==
  /\ result.returned
  /\ \E i \in 1..Len(result.messages) :
       \E j \in 1..messageCount :
         /\ messages[j].cache_control
         /\ messages[j].content = result.messages[i].content


(***************************************************************************)
(* Properties of the session lifecycle (Spec)                              *)
(***************************************************************************)
Tw == INACTIVITY_WARNING_TIME
Te == INACTIVITY_END_TIME

Flag(s) == inactivityWarnings[s].warningSent

\* C4: a session created at t and left alone gets the warning callback
\* exactly once, at t+Tw; at t+Te it is ended, leaves the registry and the
\* termination callback is invoked exactly once; no callback follows.
C4_UntouchedSessionTimeline ==
  \A s \in Sessions :
    /\ hist[s].op = "create" =>
         /\ Registered(s)
         /\ now <= hist[s].at + Te
         /\ now < hist[s].at + Tw => hist[s].warned = <<>>
         /\ now > hist[s].at + Tw => hist[s].warned = << hist[s].at + Tw >>
         /\ Len(hist[s].warned) <= 1
         /\ \A i \in 1..Len(hist[s].warned) : hist[s].warned[i] = hist[s].at + Tw
         /\ hist[s].endCbs = 0
    /\ (hist[s].op = "timeout" /\ hist[s].prevOp = "create") =>
         /\ hist[s].at = hist[s].prevAt + Te
         /\ hist[s].prevWarned = << hist[s].prevAt + Tw >>
         /\ ~Registered(s)
         /\ hist[s].endCbs = 1
         /\ hist[s].warned = <<>>
         /\ PendingFor(s) = {}

C4_Witness ==
  \E s \in Sessions :
    /\ hist[s].op = "timeout" /\ hist[s].prevOp = "create"
    /\ hist[s].endCbs = 1 /\ now > hist[s].at

\* C5: after an inbound turn or a continue at t, in any prior state, the
\* warning flag is clear and both timers restart from t: no warning callback
\* before t+Tw, exactly one at t+Tw, no termination before t+Te.
C5_ActivityRestartsTimers ==
  \A s \in Sessions :
    /\ hist[s].op \in {"turn", "continue"} =>
         /\ Flag(s) => hist[s].warned # <<>>
         /\ \A i \in 1..Len(hist[s].warned) : hist[s].warned[i] >= hist[s].at + Tw
         /\ Len(hist[s].warned) <= 1
         /\ now > hist[s].at + Tw => Len(hist[s].warned) = 1
    /\ (hist[s].op = "timeout" /\ hist[s].prevOp \in {"turn", "continue"}) =>
         hist[s].at >= hist[s].prevAt + Te

\* C6: each session has at most one timer set pending: one warning and
\* termination pair, or one single pause timer.
C6_OneTimerSetPending ==
  \A s \in Sessions :
    LET P == PendingFor(s)
    IN \/ /\ \A t \in P : t.kind \in {"warning", "end"}
          /\ \A t, u \in P : t.kind = u.kind => t = u
       \/ /\ Cardinality(P) = 1
          /\ \A t \in P : t.kind = "pause"

C8_NoTimerAfterEnd ==
  \A s \in Sessions :
    /\ hist[s].op \in {"end", "timeout"} => PendingFor(s) = {}
    /\ ~hist[s].stale

\* C9: a warning flag is recorded only for a session in the registry for
\* which a warning callback was issued with no inbound turn, continue, pause,
\* end, termination or sweep removal since.
C9_FlagOnlyWhileWarned ==
  \A s \in Sessions : Flag(s) => Registered(s) /\ hist[s].warnedSince

\* C10: a run of the sweep removes every session older than 2 hours, cancels
\* its timers and stores status cancelled; every other session keeps its
\* registry entry, its timers and its transcript.
C10_SweepRemovesOverdue ==
  [][ nextSweep' # nextSweep =>
        \A s \in Sessions :
          IF Overdue(s)
          THEN /\ ~activeSessions'[s].present
               /\ {t \in timers' : t.s = s} = {}
               /\ dbSessions'[s].status = "cancelled"
          ELSE /\ activeSessions'[s] = activeSessions[s]
               /\ sessionObjects'[s] = sessionObjects[s]
               /\ {t \in timers' : t.s = s} = PendingFor(s)
               /\ inactivityTimers'[s] = inactivityTimers[s] ]_vars


(***************************************************************************)
(* Properties of the registry per user (SpecUsers)                         *)
(***************************************************************************)
\* C11: after any sequence of creations, ends, terminations and sweeps the
\* registry holds at most one session per user id.
C11_OneSessionPerUser ==
  \A u \in Users : Cardinality(getActiveSession(u)) <= 1


(***************************************************************************)
(* Properties of the turn pipeline (SpecTurns)                             *)
(***************************************************************************)
Position(turn) == CHOOSE i \in 1..Len(transcript) : transcript[i] = turn
InTranscript(turn) == \E i \in 1..Len(transcript) : transcript[i] = turn

\* C12: of two therapist turns A then B of one session, both answered, the
\* transcript holds A, reply(A), B, reply(B) in that order, and the request
\* of B is built after the reply to A is appended.
C12_TurnsInArrivalOrder ==
  \A j, k \in Calls :
    (j < k /\ turnCalls[j].pc = "done" /\ turnCalls[k].pc = "done") =>
      /\ Position(TherapistTurn(j)) < Position(PatientTurn(j))
      /\ Position(PatientTurn(j)) < Position(TherapistTurn(k))
      /\ Position(TherapistTurn(k)) < Position(PatientTurn(k))
      /\ \E i \in 1..Len(turnCalls[k].payload) :
           /\ turnCalls[k].payload[i].role = "assistant"
           /\ turnCalls[k].payload[i].content = j

\* C15: after N turn pairs appended one after the other through the live
\* flow, with every write stored, loadConversationFromDB returns exactly
\* those N pairs, each turn once, in insertion order.
C15_LoadReturnsThePairs ==
  (\A k \in Calls : /\ turnCalls[k].pc \in {"idle", "done"}
                    /\ ~turnCalls[k].overlap /\ ~turnCalls[k].lost)
    => loadConversationFromDB(conversationRows) = transcript

\* C16: a failing store write never makes sendMessage throw: the therapist
\* turn is appended, the upstream call made, the reply appended.
C16_StoreFailureSwallowed ==
  \A k \in Calls :
    turnCalls[k].pc = "failed" => turnCalls[k].cause # "store"

\* C17: when the upstream call of a turn fails, one upstream attempt was
\* made, the error thrown is the one of its status (429 rate-limited, 401
\* authentication, 500 and above server, else other), the therapist turn
\* stays in the transcript and no patient turn is appended for it.
C17_UpstreamFailureSurfaced ==
  \A k \in Calls :
    (turnCalls[k].pc = "failed" /\ turnCalls[k].cause = "upstream") =>
      /\ turnCalls[k].attempts = 1
      /\ turnCalls[k].status = 429 <=> turnCalls[k].errorClass = "rateLimited"
      /\ turnCalls[k].status = 401 <=> turnCalls[k].errorClass = "authentication"
      /\ turnCalls[k].status >= 500 <=> turnCalls[k].errorClass = "server"
      /\ turnCalls[k].status \notin {429, 401} /\ turnCalls[k].status < 500
           <=> turnCalls[k].errorClass = "other"
      /\ InTranscript(TherapistTurn(k))
      /\ ~InTranscript(PatientTurn(k))

C17_Witness ==
  \E j, k \in Calls :
    /\ j # k
    /\ turnCalls[k].pc = "failed" /\ turnCalls[k].cause = "upstream"
    /\ turnCalls[k].status = 429
    /\ turnCalls[j].pc = "done"
    /\ Position(TherapistTurn(k)) < Position(PatientTurn(j))

(***************************************************************************)
(* Properties of turns against the lifecycle (Spec)                        *)
(***************************************************************************)
\* C13: the inactivity termination never ends a session while a turn for it
\* is in flight: no upstream call is pending for a session object that the
\* termination has removed from the registry.
C13_NoTerminationMidTurn ==
  \A c \in inflight :
    ~(hist[c.s].op = "timeout" /\ c.object = hist[c.s].life)


(***************************************************************************)
(* Properties of the rate limiter (SpecRate)                               *)
(***************************************************************************)
\* The user's recorded timestamps that are less than windowMs old.
InWindow(userId) ==
  {i \in 1..Len(rateLimiter[userId]) : clock.ms - rateLimiter[userId][i] < windowMs}

\* C14: checkRateLimit(userId) at time now admits the call iff fewer than
\* maxRequests recorded timestamps ts of the user have now - ts < windowMs,
\* and records now exactly when it admits.
C14_AdmitsBelowMax ==
  [][ lastCheck'.seq # lastCheck.seq =>
        LET u == lastCheck'.userId
            kept == [i \in 1..Len(rateLimiter'[u]) - 1 |-> rateLimiter'[u][i]]
        IN /\ lastCheck'.admitted <=> Cardinality(InWindow(u)) < maxRequests
           /\ lastCheck'.admitted =>
                /\ Len(rateLimiter'[u]) = Cardinality(InWindow(u)) + 1
                /\ rateLimiter'[u][Len(rateLimiter'[u])] = clock.ms
                /\ \A i \in 1..Len(kept) : clock.ms - kept[i] < windowMs
           /\ ~lastCheck'.admitted => rateLimiter'[u] = rateLimiter[u] ]_vars

\* A call admitted at t + windowMs + 1 after calls at t .. t+4 were recorded:
\* the list was full before the call and its two oldest entries aged out.
C14_Witness ==
  /\ lastCheck.admitted
  /\ lastCheck.held = maxRequests
  /\ Len(rateLimiter[lastCheck.userId]) = maxRequests - 1
  /\ rateLimiter[lastCheck.userId][maxRequests - 1]
       = rateLimiter[lastCheck.userId][1] + windowMs - 1


\* C18: sendMessage, endSession, handleContinueSession and handlePauseSession
\* applied to an id that is not in the registry fail at once and leave the
\* registry, the transcripts, the timers and the warning flags as they are.
\* For an id that is and stays out of the registry, every step that is
\* neither the passing of time, nor a timer firing, nor the sweep, nor the
\* end of an upstream call is such a call.
C18_UnknownSessionFailsFast ==
  [][ \A s \in Sessions :
        ( /\ ~Registered(s) /\ ~activeSessions'[s].present
          /\ now' = now /\ nextSweep' = nextSweep /\ inflight' = inflight
          /\ ~(timers' \subseteq timers /\ timers' # timers)
          /\ sessionVars' # sessionVars )
        => /\ outcome' = "error"
           /\ UNCHANGED <<activeSessions, sessionObjects, inactivityTimers,
                          inactivityWarnings, timers, dbSessions, dbHistory,
                          hist>> ]_vars

C18_Witness ==
  \E s \in Sessions :
    /\ outcome = "error"
    /\ ~Registered(s)
    /\ hist[s].op \in {"end", "timeout", "sweep"}
    /\ hist[s].turns = 0


(***************************************************************************)
(* Properties of buildMessagesWithCache on any argument (SpecRaw)          *)
(***************************************************************************)
\* C19: for a transcript that is not a sequence, or that holds an element
\* without a valid role or content, buildMessagesWithCache raises a
\* ValidationError and returns no payload.
C19_MalformedInputRejected ==
  LET malformed == \/ inputKind # "array"
                   \/ \E i \in 1..Len(messages) : ~ValidTurn(messages[i])
  IN (malformed /\ result # NoResult) =>
       /\ ~result.returned
       /\ result = Thrown("ValidationError")

(***************************************************************************)
(* Properties of the removal paths with a failing store (SpecStore)        *)
(***************************************************************************)
\* C20: a session leaves the in-memory registry only when the store has
\* accepted the write of its final status (explicit end, inactivity
\* termination, periodic sweep); when that write fails it stays registered.
C20_RemovedOnlyAfterStoreWrite ==
  [][ \A s \in Sessions :
        (Registered(s) /\ ~activeSessions'[s].present)
          => dbSessions'[s].status \in {"completed", "cancelled"} ]_vars

(***************************************************************************)
(* Properties of calculateTokens (SpecTokens)                              *)
(***************************************************************************)
\* C21: calculateTokens returns 0 for null, undefined, the empty string and
\* every value that is not a string; for a string, when the tokenizer is
\* absent or throws, it returns ceil(length / 4): the least n with
\* 4 * n >= length.
C21_TokenEstimate ==
  tokens # NoTokens =>
    /\ (~textArg.isString \/ textArg.len = 0) => tokens = 0
    /\ (textArg.isString /\ getTokenCount.mode # "precise") =>
         /\ 4 * tokens >= textArg.len
         /\ 4 * (tokens - 1) < textArg.len \/ tokens = 0

\* A string of 5 characters estimated at 2 tokens after the tokenizer threw.
C21_Witness ==
  /\ tokens = 2
  /\ textArg.isString /\ textArg.len = 5
  /\ getTokenCount.mode = "throws"

(***************************************************************************)
(* Properties of summarizeConversationHistory (SpecSummary)                *)
(***************************************************************************)
\* The turns of chunk i of a run cut into consecutive chunks of 8.
Chunk(turns, i) ==
  SubSeq(turns, SegmentSize * (i - 1) + 1,
         IF SegmentSize * i <= Len(turns) THEN SegmentSize * i ELSE Len(turns))

\* C22: summarizeConversationHistory returns the placeholder for an empty or
\* missing run; for a run of N >= 1 turns it returns ceil(N / 8) sentences,
\* numbered 1, 2, ... in order, the i-th made from the i-th chunk of 8
\* consecutive turns (the last chunk possibly shorter, none empty).
C22_OneSentencePerChunk ==
  summary # NoSummary =>
    LET N == Len(olderTurns.turns)
    IN IF ~olderTurns.present \/ N = 0
       THEN summary = << [kind |-> "placeholder"] >>
       ELSE /\ SegmentSize * Len(summary) >= N
            /\ SegmentSize * (Len(summary) - 1) < N
            /\ \A i \in 1..Len(summary) :
                 /\ summary[i].kind = "segment"
                 /\ summary[i].index = i
                 /\ summary[i].turns # <<>>
                 /\ summary[i].turns =
                      [j \in 1..Len(Chunk(olderTurns.turns, i)) |->
                         Chunk(olderTurns.turns, i)[j].content]

\* A run of 9 turns summarized in two sentences, the second made from the
\* ninth turn alone.
C22_Witness ==
  /\ Len(olderTurns.turns) = 9
  /\ Len(summary) = 2
  /\ summary[2].turns = <<9>>

(***************************************************************************)
(* Further properties of buildMessagesWithCache (SpecCache)                *)
(***************************************************************************)
\* The turns that the older-turns block of a system segment was made from.
RECURSIVE HistoryTurns(_)
HistoryTurns(h) ==
  IF Len(h) = 0 THEN <<>>
  ELSE (CASE Head(h).kind = "line" -> << Head(h).content >>
          [] Head(h).kind = "segment" -> Head(h).turns
          [] OTHER -> <<>>)
       \o HistoryTurns(Tail(h))

\* C23: under a window strategy with N turns the older-turns block of the
\* system segment is made from exactly turns 1..N-6 in their order, one
\* labelled line per turn when 10 < N < 30, the summarizer's sentences when
\* N >= 30; block and messages together hold every turn exactly once.
C23_EveryTurnOnce ==
  (result.returned /\ messageCount > 10) =>
    LET h == result.system[1].history
        kept == [i \in 1..Len(result.messages) |-> result.messages[i].content]
    IN /\ HistoryTurns(h) = [i \in 1..(messageCount - 6) |-> messages[i].content]
       /\ HistoryTurns(h) \o kept = [i \in 1..messageCount |-> i]
       /\ messageCount < 30 =>
            /\ Len(h) = messageCount - 6
            /\ \A i \in 1..Len(h) :
                 /\ h[i].kind = "line"
                 /\ h[i].label = "Therapist" <=> messages[i].role = "user"
       /\ messageCount >= 30 => \A i \in 1..Len(h) : h[i].kind = "segment"

\* 31 turns: four sentences made from turns 1..25, turns 26..31 as messages.
C23_Witness ==
  /\ result.returned /\ messageCount = 31
  /\ Len(result.system[1].history) = 4
  /\ result.system[1].history[4].turns = <<25>>
  /\ result.messages[1].content = 26

\* C25: for a transcript whose roles alternate and that begins and ends with
\* a therapist ('user') turn, the first element of the messages of the
\* payload is a therapist turn.
C25_FirstMessageIsTherapist ==
  ( /\ result.returned
    /\ messageCount >= 1
    /\ messages[1].role = "user"
    /\ messages[messageCount].role = "user"
    /\ \A i \in 1..(messageCount - 1) : messages[i].role # messages[i + 1].role )
  => result.messages[1].role = "user"

\* C28 as stated: the messages of the payload are the last min(6, N) turns.
C28_KeepsMinSixOrAll ==
  result.returned =>
    Len(result.messages) = IF messageCount < 6 THEN messageCount ELSE 6

\* C28: the messages of the payload are the most recent turns in their
\* order: all N of them under the simple strategy (N <= 10), the last 6
\* under a window strategy.
C28_KeepsAllOrSix ==
  result.returned =>
    LET n == Len(result.messages)
    IN /\ n = IF determineStrategy(messageCount, systemTokens) = "sliding_window"
              THEN 6 ELSE messageCount
       /\ n <= messageCount
       /\ \A i \in 1..n : result.messages[i].content = messageCount - n + i

\* Eight turns, all eight in the payload.
C28_Witness ==
  /\ result.returned /\ messageCount = 8
  /\ Len(result.messages) = 8
  /\ result.messages[8].content = 8

(***************************************************************************)
(* Further properties of the session registry (Spec)                       *)
(***************************************************************************)
\* C24: right after continueSession the session is in the registry with no
\* warning flag; exactly one warning timer (Tw) and one termination timer
\* (Te) are pending for it, both counted from the restore instant and armed
\* in this life; its transcript is what the load from the store returns.
C24_RestoreIsFresh ==
  [][ \A s \in Sessions :
        (hist'[s].op = "restore" /\ hist'[s].life # hist[s].life) =>
          /\ activeSessions'[s].present
          /\ ~inactivityWarnings'[s].warningSent
          /\ {[kind |-> t.kind, at |-> t.at, life |-> t.life] :
                t \in {x \in timers' : x.s = s}}
               = { [kind |-> "warning", at |-> now + Tw, life |-> hist'[s].life],
                   [kind |-> "end", at |-> now + Te, life |-> hist'[s].life] }
          /\ Cardinality({x \in timers' : x.s = s}) = 2
          /\ sessionObjects'[s][hist'[s].life] = loadConversationFromDB(dbHistory[s]) ]_vars

(***************************************************************************)
(* Liveness of the registry (SpecLive)                                     *)
(***************************************************************************)
\* C26: with timers and sweep eventually run, every session that enters the
\* registry eventually leaves it, whatever turns, pauses and continues come.
C26_EventuallyRemoved ==
  \A s \in Sessions : Registered(s) ~> ~Registered(s)

\* A session created in this run, kept alive past its inactivity timers and
\* removed by the sweep after the 2-hour ceiling.
C26_Witness ==
  \E s \in Sessions :
    /\ hist[s].op = "sweep"
    /\ ~Registered(s)
    /\ now > maxInactiveTime

(***************************************************************************)
(* The emotion label of the summary sentences (SpecSummary)                *)
(***************************************************************************)
\* Entry i of the emotion table has a keyword in the lower-cased
\* concatenation of the patient turns of the chunk.
EntryMatches(chunk, i) ==
  \E k \in EmotionTable[i].keywords :
    includes(toLowerCase(JoinWords(PatientMessages(chunk))), k)

\* The label is that of the first matching entry, "mixed" when none matches.
FirstMatchOrMixed(chunk, label) ==
  \/ \E i \in 1..Len(EmotionTable) :
       /\ EntryMatches(chunk, i)
       /\ \A j \in 1..(i - 1) : ~EntryMatches(chunk, j)
       /\ label = EmotionTable[i].emotion
  \/ /\ \A i \in 1..Len(EmotionTable) : ~EntryMatches(chunk, i)
     /\ label = "mixed"

\* C27 as stated: whatever the mix of roles of a chunk, the emotion of its
\* sentence is the first entry of the table (anxious, sad, angry, positive,
\* tired) with a keyword in the lower-cased concatenation of the patient
\* turns of the chunk, and "mixed" when no entry matches.
C27_FirstMatchElseMixed ==
  (summary # NoSummary /\ olderTurns.present /\ Len(olderTurns.turns) > 0) =>
    \A i \in 1..Len(summary) :
      FirstMatchOrMixed(Chunk(olderTurns.turns, i), summary[i].emotions)

\* C27: for a chunk without patient turns the emotion of the sentence is
\* "neutral"; for a chunk with patient turns it is the first entry of the
\* table with a keyword in the lower-cased concatenation of these turns, and
\* "mixed" when no entry matches.
C27_NeutralFirstMatchElseMixed ==
  (summary # NoSummary /\ olderTurns.present /\ Len(olderTurns.turns) > 0) =>
    \A i \in 1..Len(summary) :
      IF Len(PatientMessages(Chunk(olderTurns.turns, i))) = 0
      THEN summary[i].emotions = "neutral"
      ELSE FirstMatchOrMixed(Chunk(olderTurns.turns, i), summary[i].emotions)

\* A chunk whose patient says "Horosho" and later "strashno": the sentence
\* says anxious, the earlier entry of the table.
C27_Witness ==
  /\ summary # NoSummary
  /\ Len(olderTurns.turns) >= 2
  /\ \E i, j \in 1..Len(olderTurns.turns) :
       /\ i < j /\ j <= SegmentSize
       /\ olderTurns.turns[i].role = "assistant"
       /\ olderTurns.turns[i].words = <<"Horosho">>
       /\ olderTurns.turns[j].role = "assistant"
       /\ olderTurns.turns[j].words = <<"strashno">>
  /\ summary[1].emotions = "anxious"

(***************************************************************************)
(* Properties of the rate limiter with its sweep (SpecSweep)               *)
(***************************************************************************)
\* The timestamps of a list that are less than windowMs old at time t.
StillInWindow(list, t) ==
  LET fresh(ts) == t - ts < windowMs
  IN SelectSeq(list, fresh)

C30_RejectedCallChangesNothing ==
  [][ lastCheck'.seq # lastCheck.seq =>
        /\ \A v \in DOMAIN rateLimiter :
             v # lastCheck'.userId => rateLimiter'[v] = rateLimiter[v]
        /\ ~lastCheck'.admitted =>
             rateLimiter'[lastCheck'.userId] = rateLimiter[lastCheck'.userId] ]_vars

\* A call rejected while another user has timestamps recorded.
C30_Witness ==
  /\ lastCheck.seq > 0
  /\ ~lastCheck.admitted
  /\ Len(rateLimiter[lastCheck.userId]) = maxRequests
  /\ \E v \in DOMAIN rateLimiter : v # lastCheck.userId /\ rateLimiter[v] # <<>>

====
